---- MODULE Spec2Model ----
(***************************************************************************)
(* A model of uptix: the lock-file update engine (src/src/main.rs), the    *)
(* dependency variants (src/src/deps/) and the lock store.                 *)
(*                                                                         *)
(* Strings are sequences of one-character strings, so that parsing,        *)
(* formatting, splitting and comparison are computed as the code computes  *)
(* them.  Option<T> is a sequence of length at most one: None is << >> and *)
(* Some(x) is << x >>.  Where the code binds a value with `let` and uses   *)
(* it several times, the model passes it to a second operator.             *)
(***************************************************************************)
EXTENDS Naturals, Sequences, FiniteSets, TLC

\* ------------------------------------------------------------------ bounds
\* Longest list of declaration call-sites a project holds.
MaxDecls == 2
\* Number of distinct digests / revisions the remote side can answer with.
MaxRev == 1
\* Largest number of entries of a lock file left by earlier runs.
MaxOld == 1

\* ----------------------------------------------------------------- strings
None == << >>
Some(x) == << x >>
IsSome(o) == Len(o) = 1
IsNone(o) == Len(o) = 0
Unwrap(o) == o[1]
\* Option::unwrap_or
UnwrapOr(o, d) == IF Len(o) = 1 THEN o[1] ELSE d

\* str::contains(char)
Contains(s, c) == \E i \in 1..Len(s) : s[i] = c
\* all characters of s are in the class cs
AllIn(s, cs) == \A i \in 1..Len(s) : s[i] \in cs
\* position of the first c in s (s contains c)
FirstIndex(s, c) == CHOOSE i \in 1..Len(s) : s[i] = c /\ \A j \in 1..(i - 1) : s[j] # c
\* the text before, and after, the first c in s
Before(s, c) == SubSeq(s, 1, FirstIndex(s, c) - 1)
After(s, c) == SubSeq(s, FirstIndex(s, c) + 1, Len(s))
\* str::split(c), as Rust splits: n separators give n + 1 parts, empty ones kept
RECURSIVE Split(_, _)
Split(s, c) ==
    IF ~Contains(s, c) THEN << s >> ELSE << Before(s, c) >> \o Split(After(s, c), c)
\* str::trim_matches(c)
RECURSIVE TrimStart(_, _)
TrimStart(s, c) == IF Len(s) > 0 /\ s[1] = c THEN TrimStart(Tail(s), c) ELSE s
RECURSIVE TrimEnd(_, _)
TrimEnd(s, c) ==
    IF Len(s) > 0 /\ s[Len(s)] = c THEN TrimEnd(SubSeq(s, 1, Len(s) - 1), c) ELSE s
TrimMatches(s, c) == TrimEnd(TrimStart(s, c), c)
\* str::contains(&str)
ContainsStr(s, sub) ==
    \E i \in 1..(Len(s) + 1) : i + Len(sub) - 1 <= Len(s) /\ SubSeq(s, i, i + Len(sub) - 1) = sub

Lower ==
    {"a", "b", "c", "d", "e", "f", "g", "h", "i", "j", "k", "l", "m",
     "n", "o", "p", "q", "r", "s", "t", "u", "v", "w", "x", "y", "z"}
Digit == {"0", "1", "2", "3", "4", "5", "6", "7", "8", "9"}
\* [a-z0-9.-]
RegistryChars == Lower \cup Digit \cup {".", "-"}
\* [a-z0-9-]
ImageChars == Lower \cup Digit \cup {"-"}

\* byte order of the characters the model uses (ASCII)
Ascii ==
    <<" ", "\"", "$", "-", ".", "/", "0", "1", "2", "3", "4", "5", "6", "7", "8", "9", ":",
      "A", "B", "C", "D", "E", "F", "G", "H", "I", "J", "K", "L", "M", "N", "O", "P", "Q",
      "R", "S", "T", "U", "V", "W", "X", "Y", "Z", "_",
      "a", "b", "c", "d", "e", "f", "g", "h", "i", "j", "k", "l", "m", "n", "o", "p", "q",
      "r", "s", "t", "u", "v", "w", "x", "y", "z", "{">>
Ord(c) == CHOOSE i \in 1..Len(Ascii) : Ascii[i] = c
\* String's Ord: lexicographic by bytes
RECURSIVE StrLess(_, _)
StrLess(a, b) ==
    IF Len(b) = 0 THEN FALSE
    ELSE IF Len(a) = 0 THEN TRUE
    ELSE IF a[1] # b[1] THEN Ord(a[1]) < Ord(b[1])
    ELSE StrLess(Tail(a), Tail(b))
\* the least of a non-empty set of strings
LeastKey(ks) == CHOOSE k \in ks : \A o \in ks \ {k} : StrLess(k, o)
\* the keys of a BTreeMap in iteration order
RECURSIVE SortedFrom(_, _)
SortedFrom(ks, m) == << m >> \o (IF ks = {m} THEN << >> ELSE SortedFrom(ks \ {m}, LeastKey(ks \ {m})))
SortedKeys(ks) == IF ks = {} THEN << >> ELSE SortedFrom(ks, LeastKey(ks))
\* the least of a non-empty set of numbers, and the greatest
MinOf(S) == CHOOSE m \in S : \A n \in S : m <= n
MaxOf(S) == CHOOSE m \in S : \A n \in S : n <= m

\* ------------------------------------------------- container image (Docker)
DEFAULT_REGISTRY == <<"r", "e", "g", "i", "s", "t", "r", "y", "-", "1", ".", "d", "o", "c", "k", "e", "r", ".", "i", "o">>
DEFAULT_TAG == <<"l", "a", "t", "e", "s", "t">>

\* [a-z0-9-]+(?:/[a-z0-9-]+)*
IsImagePath(s) ==
    /\ Len(s) > 0
    /\ \A i \in 1..Len(s) : s[i] \in ImageChars \cup {"/"}
    /\ s[1] # "/"
    /\ s[Len(s)] # "/"
    /\ \A i \in 1..(Len(s) - 1) : ~(s[i] = "/" /\ s[i + 1] = "/")

\* :?([a-z0-9.-]+)?$ applied to the rest r of the text
TagRestMatches(r) ==
    \/ Len(r) = 0
    \/ r[1] = ":" /\ AllIn(Tail(r), RegistryChars)
    \/ r[1] # ":" /\ AllIn(r, RegistryChars)
\* capture group 3 for a rest that matches
TagRestCapture(r) ==
    IF Len(r) = 0 THEN None
    ELSE IF r[1] = ":" THEN (IF Len(r) = 1 THEN None ELSE Some(Tail(r)))
    ELSE Some(r)

\* ([a-z0-9-]+(?:/[a-z0-9-]+)*):?([a-z0-9.-]+)?$ on s: the ends e of group 2
\* for which the whole of s matches
ImageEnds(s) ==
    {e \in 1..Len(s) : IsImagePath(SubSeq(s, 1, e)) /\ TagRestMatches(SubSeq(s, e + 1, Len(s)))}

NoCaptures == [matched |-> FALSE, g1 |-> None, g2 |-> << >>, g3 |-> None]
\* the captures of the tail pattern on s, group 2 greedy: the longest end
CapturesAt(s, g1, ends) ==
    IF ends = {} THEN NoCaptures
    ELSE [matched |-> TRUE, g1 |-> g1, g2 |-> SubSeq(s, 1, MaxOf(ends)),
          g3 |-> TagRestCapture(SubSeq(s, MaxOf(ends) + 1, Len(s)))]
TailCaptures(s, g1) == CapturesAt(s, g1, ImageEnds(s))
\* the alternatives of a regex in priority order
FirstMatch(a, b) == IF a.matched THEN a ELSE b

\* RE.captures(text): the optional registry group ([a-z0-9.-]+)/ is tried
\* first; without it the whole text must match the tail pattern.
RE_captures(text) ==
    FirstMatch(
        IF Contains(text, "/") /\ Len(Before(text, "/")) > 0
           /\ AllIn(Before(text, "/"), RegistryChars)
        THEN TailCaptures(After(text, "/"), Some(Before(text, "/")))
        ELSE NoCaptures,
        TailCaptures(text, None))

\* Docker::from after RE.captures: a panic ("Malformatted Docker image") when
\* the text does not match, otherwise Ok(Docker).
Docker_from_captures(text, caps) ==
    IF ~caps.matched THEN [panic |-> TRUE, ok |-> FALSE, dep |-> None]
    ELSE [panic |-> FALSE, ok |-> TRUE,
          dep |-> Some([variant |-> "Docker",
                        name |-> text,
                        registry |-> IF IsSome(caps.g1) /\ Contains(Unwrap(caps.g1), ".")
                                     THEN Unwrap(caps.g1) ELSE DEFAULT_REGISTRY,
                        image |-> IF IsSome(caps.g1) /\ ~Contains(Unwrap(caps.g1), ".")
                                  THEN Unwrap(caps.g1) \o <<"/">> \o caps.g2
                                  ELSE caps.g2,
                        tag |-> UnwrapOr(caps.g3, DEFAULT_TAG),
                        use_https |-> TRUE])]
\* Docker::from
Docker_from(text) == Docker_from_captures(text, RE_captures(text))

\* Lockable::key for Docker
Docker_key(d) == d.name

\* a match that ignores the registry of the image
Docker_matches_any_registry(d, pattern) == d.name = pattern \/ d.image = pattern

\* Lockable::matches for Docker
Docker_matches(d, pattern) ==
    \/ d.name = pattern
    \/ (d.registry = DEFAULT_REGISTRY /\ d.image = pattern /\ ~Contains(pattern, ":"))

\* ------------------------------------------ lock entries (deps/mod.rs)
\* serde_json::Value, as far as lock payloads use it: a JSON string (s) or a
\* JSON object (o, a function from member names to values).
JsonString(s) == [t |-> "String", s |-> s, o |-> << >>]
JsonObject(o) == [t |-> "Object", s |-> << >>, o |-> o]

\* struct DependencyMetadata, with the timestamp Docker::lock_with_metadata
\* sets and display_dependency_details reads
DependencyMetadata(name, selected_version, resolved_version, timestamp, dep_type, description) ==
    [name |-> name, selected_version |-> selected_version,
     resolved_version |-> resolved_version, timestamp |-> timestamp,
     dep_type |-> dep_type, description |-> description]

\* struct LockEntry
LockEntry(metadata, lock) == [metadata |-> metadata, lock |-> lock]

\* Result<T, Error>
Ok(v) == [ok |-> TRUE, err |-> "", val |-> << v >>]
Err(e) == [ok |-> FALSE, err |-> e, val |-> << >>]

\* ------------------------------------------------ source control (GitHub)
\* flags that render every option as unset
flags_unset(fetch_submodules, deep_clone, leave_dot_git) == << >>

\* github::flags
flags(fetch_submodules, deep_clone, leave_dot_git) ==
    (IF UnwrapOr(fetch_submodules, FALSE) THEN <<"f">> ELSE << >>)
    \o (IF UnwrapOr(deep_clone, FALSE) THEN <<"d">> ELSE << >>)
    \o (IF UnwrapOr(leave_dot_git, FALSE) THEN <<"l">> ELSE << >>)

\* struct GitHubRelease
GitHubRelease(owner, repo, fs, dc, ldg, override_nix_sha256) ==
    [variant |-> "GitHubRelease", owner |-> owner, repo |-> repo,
     fetchSubmodules |-> fs, deepClone |-> dc, leaveDotGit |-> ldg,
     override_nix_sha256 |-> override_nix_sha256]

\* struct GitHubBranch
GitHubBranch(owner, repo, branch, fs, dc, ldg, override_nix_sha256) ==
    [variant |-> "GitHubBranch", owner |-> owner, repo |-> repo, branch |-> branch,
     fetchSubmodules |-> fs, deepClone |-> dc, leaveDotGit |-> ldg,
     override_nix_sha256 |-> override_nix_sha256]

\* Lockable::key for GitHubRelease
GitHubRelease_key(d) ==
    <<"$", "G", "I", "T", "H", "U", "B", "_", "R", "E", "L", "E", "A", "S", "E", "$", ":">> \o d.owner \o <<"/">> \o d.repo \o <<"$">>
    \o flags(d.fetchSubmodules, d.deepClone, d.leaveDotGit)

\* Lockable::key for GitHubBranch
GitHubBranch_key(d) ==
    <<"$", "G", "I", "T", "H", "U", "B", "_", "B", "R", "A", "N", "C", "H", "$", ":">> \o d.owner \o <<"/">> \o d.repo \o <<":">> \o d.branch \o <<"$">>
    \o flags(d.fetchSubmodules, d.deepClone, d.leaveDotGit)

\* pattern_parts.len() == 2 && pattern_parts[0] == owner && pattern_parts[1] == repo
owner_repo_parts(d, pattern_parts) ==
    Len(pattern_parts) = 2 /\ pattern_parts[1] = d.owner /\ pattern_parts[2] = d.repo
\* a match on the internal key alone
GitHubRelease_matches_key_only(d, pattern) == pattern = GitHubRelease_key(d)

\* Lockable::matches for GitHubRelease
GitHubRelease_matches(d, pattern) ==
    IF pattern = GitHubRelease_key(d) THEN TRUE
    ELSE IF ~Contains(pattern, ":") /\ Contains(pattern, "/")
         THEN owner_repo_parts(d, Split(pattern, "/"))
         ELSE FALSE

\* Lockable::matches for GitHubBranch: the internal key only
GitHubBranch_matches(d, pattern) == pattern = GitHubBranch_key(d)

\* struct GitHubLock as a JSON object
GitHubLock(d, rev, sha256) ==
    JsonObject([owner |-> d.owner, repo |-> d.repo, rev |-> rev, sha256 |-> sha256,
                fetchSubmodules |-> UnwrapOr(d.fetchSubmodules, FALSE),
                deepClone |-> UnwrapOr(d.deepClone, FALSE),
                leaveDotGit |-> UnwrapOr(d.leaveDotGit, FALSE)])

\* a hash that always comes from nix-prefetch-git
GitHub_sha256_prefetched(d, prefetch) == prefetch

\* The hash of a source-control resolution: the override when the declaration
\* carries one, otherwise the answer of compute_nix_sha256 (nix-prefetch-git),
\* which is Ok(hash) or Err.
GitHub_sha256(d, prefetch) ==
    IF IsSome(d.override_nix_sha256) THEN Ok(Unwrap(d.override_nix_sha256)) ELSE prefetch

\* GitHubRelease::lock_with_metadata after the two fallible calls
GitHubRelease_entry(d, api, sha256) ==
    IF ~api.ok THEN Err(api.err)
    ELSE IF ~sha256.ok THEN Err(sha256.err)
    ELSE Ok(LockEntry(
            DependencyMetadata(d.owner \o <<"/">> \o d.repo, Some(<<"l", "a", "t", "e", "s", "t">>),
                               Some(Unwrap(api.val)), None, <<"g", "i", "t", "h", "u", "b", "-", "r", "e", "l", "e", "a", "s", "e">>,
                               <<"G", "i", "t", "H", "u", "b", " ", "r", "e", "l", "e", "a", "s", "e", " ", "f", "r", "o", "m", " ">> \o d.owner \o <<"/">> \o d.repo),
            GitHubLock(d, Unwrap(api.val), Unwrap(sha256.val))))
\* GitHubRelease::lock_with_metadata.  api is the answer of
\* fetch_github_latest_release: Ok(tag_name) or Err.
GitHubRelease_lock_with_metadata(d, api, prefetch) ==
    GitHubRelease_entry(d, api, GitHub_sha256(d, prefetch))

\* GitHubBranch::lock_with_metadata after the two fallible calls
GitHubBranch_entry(d, api, sha256) ==
    IF ~api.ok THEN Err(api.err)
    ELSE IF ~sha256.ok THEN Err(sha256.err)
    ELSE Ok(LockEntry(
            DependencyMetadata(d.owner \o <<"/">> \o d.repo, Some(d.branch),
                               Some(Unwrap(api.val)), None, <<"g", "i", "t", "h", "u", "b", "-", "b", "r", "a", "n", "c", "h">>,
                               <<"G", "i", "t", "H", "u", "b", " ", "b", "r", "a", "n", "c", "h", " ">> \o d.branch \o <<" ", "f", "r", "o", "m", " ">>
                                   \o d.owner \o <<"/">> \o d.repo),
            GitHubLock(d, Unwrap(api.val), Unwrap(sha256.val))))
\* GitHubBranch::lock_with_metadata.  api is the answer of
\* fetch_github_branch_info: Ok(commit.sha) or Err.
GitHubBranch_lock_with_metadata(d, api, prefetch) ==
    GitHubBranch_entry(d, api, GitHub_sha256(d, prefetch))

GitHubLockFields ==
    {"owner", "repo", "rev", "sha256", "fetchSubmodules", "deepClone", "leaveDotGit"}
\* serde_json::from_value::<GitHubLock>(entry.lock).ok()
GitHubLock_from_value(v) ==
    IF v.t = "Object" /\ GitHubLockFields \subseteq DOMAIN v.o THEN Some(v.o) ELSE None

\* GitHubRelease::from_lock_entry after from_value
GitHubRelease_from_lock(lock_data) ==
    IF IsNone(lock_data) THEN None
    ELSE Some(GitHubRelease(Unwrap(lock_data).owner, Unwrap(lock_data).repo,
                            Some(Unwrap(lock_data).fetchSubmodules),
                            Some(Unwrap(lock_data).deepClone),
                            Some(Unwrap(lock_data).leaveDotGit), None))
\* GitHubRelease::from_lock_entry
GitHubRelease_from_lock_entry(entry) ==
    GitHubRelease_from_lock(GitHubLock_from_value(entry.lock))

\* GitHubBranch::from_lock_entry after from_value: the branch is the stored
\* selected_version
GitHubBranch_from_lock(lock_data, selected_version) ==
    IF IsNone(lock_data) \/ IsNone(selected_version) THEN None
    ELSE Some(GitHubBranch(Unwrap(lock_data).owner, Unwrap(lock_data).repo,
                           Unwrap(selected_version),
                           Some(Unwrap(lock_data).fetchSubmodules),
                           Some(Unwrap(lock_data).deepClone),
                           Some(Unwrap(lock_data).leaveDotGit), None))
\* GitHubBranch::from_lock_entry
GitHubBranch_from_lock_entry(entry) ==
    GitHubBranch_from_lock(GitHubLock_from_value(entry.lock), entry.metadata.selected_version)

\* ------------------------------------------ container image: resolution
\* a resolution that stores the resolved version as the lock payload
Docker_lock_with_metadata_version_payload(d, digest, meta) ==
    IF ~digest.ok THEN Err(digest.err)
    ELSE IF IsNone(Unwrap(digest.val)) THEN Err("StringError")
    ELSE Ok(LockEntry(
            DependencyMetadata(d.image, Some(d.tag),
                               Some(UnwrapOr(meta.friendly_version, Unwrap(Unwrap(digest.val)))),
                               meta.timestamp, <<"d", "o", "c", "k", "e", "r">>,
                               <<"D", "o", "c", "k", "e", "r", " ", "i", "m", "a", "g", "e", " ">> \o d.image \o <<":">> \o d.tag
                                   \o <<" ", "f", "r", "o", "m", " ">> \o d.registry),
            JsonString(UnwrapOr(meta.friendly_version, Unwrap(Unwrap(digest.val))))))

\* Docker::lock_with_metadata.  digest is the answer of latest_digest:
\* Ok(Some(d)), Ok(None) or Err; meta is the pair fetch_image_metadata
\* returns (it never fails).
Docker_lock_with_metadata(d, digest, meta) ==
    IF ~digest.ok THEN Err(digest.err)
    ELSE IF IsNone(Unwrap(digest.val)) THEN Err("StringError")
    ELSE Ok(LockEntry(
            DependencyMetadata(d.image, Some(d.tag),
                               Some(UnwrapOr(meta.friendly_version, Unwrap(Unwrap(digest.val)))),
                               meta.timestamp, <<"d", "o", "c", "k", "e", "r">>,
                               <<"D", "o", "c", "k", "e", "r", " ", "i", "m", "a", "g", "e", " ">> \o d.image \o <<":">> \o d.tag
                                   \o <<" ", "f", "r", "o", "m", " ">> \o d.registry),
            JsonString(Unwrap(Unwrap(digest.val)))))

\* Docker::from_lock_entry: None without a selected_version, else
\* Docker::from(name:tag).ok(); Docker::from panics on a text RE rejects.
Docker_from_lock_entry(entry) ==
    IF IsNone(entry.metadata.selected_version) THEN [panic |-> FALSE, ok |-> FALSE, dep |-> None]
    ELSE Docker_from(entry.metadata.name \o <<":">> \o Unwrap(entry.metadata.selected_version))

\* ------------------------------------- container image: metadata enrichment
\* Ok((None, None)): what fetch_image_metadata returns on every failure
NoMetadata == [friendly_version |-> None, timestamp |-> None]

\* Deserialize for ImageConfig.created (Option<String>), from the members of
\* the config blob
ImageConfig_created(o) ==
    IF "created" \notin DOMAIN o THEN Ok(None)
    ELSE IF o.created.t # "String" THEN Err("JSONParsingError")
    ELSE Ok(Some(o.created.s))
\* Deserialize for ImageConfig.config (Option<ImageConfigDetails>), whose
\* member Labels is an optional map of strings
ImageConfigDetails_from(o) ==
    IF "config" \notin DOMAIN o THEN Ok(None)
    ELSE IF o.config.t # "Object" THEN Err("JSONParsingError")
    ELSE IF "Labels" \notin DOMAIN o.config.o THEN Ok(Some([labels |-> None]))
    ELSE IF o.config.o.Labels.t # "Object" THEN Err("JSONParsingError")
    ELSE Ok(Some([labels |->
            Some([l \in DOMAIN o.config.o.Labels.o |-> o.config.o.Labels.o[l].s])]))
ImageConfig_build(created, config) ==
    IF ~created.ok \/ ~config.ok THEN Err("JSONParsingError")
    ELSE Ok([created |-> Unwrap(created.val), config |-> Unwrap(config.val)])
\* serde_json::from_slice::<ImageConfig>
ImageConfig_from_slice(bytes) ==
    IF bytes.t # "Object" THEN Err("JSONParsingError")
    ELSE ImageConfig_build(ImageConfig_created(bytes.o), ImageConfigDetails_from(bytes.o))

\* a lookup that prefers the label version
label_version_plain_first(labels) ==
    IF "version" \in DOMAIN labels THEN Some(labels["version"])
    ELSE IF "org.opencontainers.image.version" \in DOMAIN labels
    THEN Some(labels["org.opencontainers.image.version"])
    ELSE None
\* labels.get("org.opencontainers.image.version")
\*     .or_else(|| labels.get("version")).cloned()
label_version(labels) ==
    IF "org.opencontainers.image.version" \in DOMAIN labels
    THEN Some(labels["org.opencontainers.image.version"])
    ELSE IF "version" \in DOMAIN labels THEN Some(labels["version"])
    ELSE None
\* config.config.and_then(|c| c.labels).and_then(..)
config_version(config) ==
    IF IsNone(config) THEN None
    ELSE IF IsNone(Unwrap(config).labels) THEN None
    ELSE label_version(Unwrap(Unwrap(config).labels))
\* .or_else(|| timestamp.as_ref().and_then(|ts| ts.split('T').next()..))
or_else_date(version, timestamp) ==
    IF IsSome(version) THEN version
    ELSE IF IsSome(timestamp) THEN Some(Split(Unwrap(timestamp), "T")[1])
    ELSE None
\* Ok((friendly_version, timestamp)) of a parsed config blob
image_metadata(config) ==
    [friendly_version |-> or_else_date(config_version(config.config), config.created),
     timestamp |-> config.created]
\* fetch_image_metadata from the parsed config blob on
parsed_metadata(config) == IF ~config.ok THEN NoMetadata ELSE image_metadata(Unwrap(config.val))
\* fetch_image_metadata from the config digest on: the client is built, the
\* blob fetched and parsed; reg holds what the registry answers
fetch_config_blob(reg) ==
    IF ~reg.clients.blob THEN NoMetadata
    ELSE IF ~reg.blob.ok THEN NoMetadata
    ELSE parsed_metadata(ImageConfig_from_slice(Unwrap(reg.blob.val)))

\* a manifest list whose first platform manifest is fetched: whether it
\* gives a config digest
platform_config_digest(reg) ==
    IF Len(Unwrap(reg.manifest.val).manifests) = 0 THEN FALSE
    ELSE IF ~reg.clients.platform THEN FALSE
    ELSE IF ~reg.platform_manifest.ok THEN FALSE
    ELSE Unwrap(reg.platform_manifest.val).kind = "S2"
\* a match that takes the config of any manifest kind
config_digest_any_kind(reg) ==
    IF ~reg.clients.manifest THEN FALSE
    ELSE IF ~reg.manifest.ok THEN FALSE
    ELSE IF Unwrap(reg.manifest.val).kind = "ML" THEN platform_config_digest(reg)
    ELSE TRUE
\* fetch_image_metadata up to the config digest: whether the manifest (or,
\* for a manifest list, its first platform manifest) gives one
config_digest(reg) ==
    IF ~reg.clients.manifest THEN FALSE
    ELSE IF ~reg.manifest.ok THEN FALSE
    ELSE IF Unwrap(reg.manifest.val).kind = "S2" THEN TRUE
    ELSE IF Unwrap(reg.manifest.val).kind = "ML" THEN platform_config_digest(reg)
    ELSE FALSE
\* Docker::fetch_image_metadata: it returns Ok in every case
fetch_image_metadata(reg) ==
    IF config_digest(reg) THEN fetch_config_blob(reg) ELSE NoMetadata

\* ------------------------------------------------- enum Dependency
\* Dependency::key
Dependency_key(dep) ==
    CASE dep.variant = "Docker" -> Docker_key(dep)
      [] dep.variant = "GitHubBranch" -> GitHubBranch_key(dep)
      [] dep.variant = "GitHubRelease" -> GitHubRelease_key(dep)

\* a dispatch that gives branches the matching rule of releases
Dependency_matches_as_release(dep, pattern) ==
    CASE dep.variant = "Docker" -> Docker_matches(dep, pattern)
      [] dep.variant = "GitHubBranch" -> GitHubRelease_matches(dep, pattern)
      [] dep.variant = "GitHubRelease" -> GitHubRelease_matches(dep, pattern)

\* Dependency::matches
Dependency_matches(dep, pattern) ==
    CASE dep.variant = "Docker" -> Docker_matches(dep, pattern)
      [] dep.variant = "GitHubBranch" -> GitHubBranch_matches(dep, pattern)
      [] dep.variant = "GitHubRelease" -> GitHubRelease_matches(dep, pattern)

\* Dependency::lock_with_metadata against the remote answers in world w
Dependency_lock_with_metadata(dep, w) ==
    CASE dep.variant = "Docker" -> Docker_lock_with_metadata(dep, w.digest, w.meta)
      [] dep.variant = "GitHubBranch" -> GitHubBranch_lock_with_metadata(dep, w.api, w.prefetch)
      [] dep.variant = "GitHubRelease" -> GitHubRelease_lock_with_metadata(dep, w.api, w.prefetch)

\* Option<variant>.map(Dependency::..).ok_or_else(..)
ok_or_else(opt) == [panic |-> FALSE, ok |-> IsSome(opt), dep |-> opt]
\* a reconstruction that takes every unknown dep_type for an image
Dependency_from_lock_entry_image_by_default(entry) ==
    IF entry.metadata.dep_type = <<"g", "i", "t", "h", "u", "b", "-", "b", "r", "a", "n", "c", "h">>
    THEN ok_or_else(GitHubBranch_from_lock_entry(entry))
    ELSE IF entry.metadata.dep_type = <<"g", "i", "t", "h", "u", "b", "-", "r", "e", "l", "e", "a", "s", "e">>
    THEN ok_or_else(GitHubRelease_from_lock_entry(entry))
    ELSE Docker_from_lock_entry(entry)
\* Dependency::from_lock_entry: Ok(dep), Err, or a panic inside Docker::from
Dependency_from_lock_entry(entry) ==
    IF entry.metadata.dep_type = <<"d", "o", "c", "k", "e", "r">> THEN Docker_from_lock_entry(entry)
    ELSE IF entry.metadata.dep_type = <<"g", "i", "t", "h", "u", "b", "-", "b", "r", "a", "n", "c", "h">>
    THEN ok_or_else(GitHubBranch_from_lock_entry(entry))
    ELSE IF entry.metadata.dep_type = <<"g", "i", "t", "h", "u", "b", "-", "r", "e", "l", "e", "a", "s", "e">>
    THEN ok_or_else(GitHubRelease_from_lock_entry(entry))
    ELSE [panic |-> FALSE, ok |-> FALSE, dep |-> None]

\* ------------------------------------------------ the lock store as JSON
LockFile_new == [k \in {} |-> << >>]
\* BTreeMap::insert
LockFile_insert(lf, key, entry) ==
    [k \in DOMAIN lf \cup {key} |-> IF k = key THEN entry ELSE lf[k]]

MetadataRequired == {"name", "dep_type", "description"}
\* Serialize for DependencyMetadata: a JSON object; an Option that is None
\* is skipped (skip_serializing_if = "Option::is_none")
DependencyMetadata_serialize(m) ==
    [f \in MetadataRequired
           \cup (IF IsSome(m.selected_version) THEN {"selected_version"} ELSE {})
           \cup (IF IsSome(m.resolved_version) THEN {"resolved_version"} ELSE {})
           \cup (IF IsSome(m.timestamp) THEN {"timestamp"} ELSE {}) |->
        CASE f = "name" -> m.name
          [] f = "dep_type" -> m.dep_type
          [] f = "description" -> m.description
          [] f = "selected_version" -> Unwrap(m.selected_version)
          [] f = "resolved_version" -> Unwrap(m.resolved_version)
          [] f = "timestamp" -> Unwrap(m.timestamp)]
\* Deserialize for DependencyMetadata: a missing required member is an error,
\* a missing Option is None, a member the struct does not have is ignored.
DependencyMetadata_deserialize(j) ==
    IF ~(MetadataRequired \subseteq DOMAIN j) THEN None
    ELSE Some(DependencyMetadata(
            j["name"],
            IF "selected_version" \in DOMAIN j THEN Some(j["selected_version"]) ELSE None,
            IF "resolved_version" \in DOMAIN j THEN Some(j["resolved_version"]) ELSE None,
            IF "timestamp" \in DOMAIN j THEN Some(j["timestamp"]) ELSE None,
            j["dep_type"], j["description"]))
\* Serialize and Deserialize for LockEntry
LockEntry_serialize(entry) ==
    [metadata |-> DependencyMetadata_serialize(entry.metadata), lock |-> entry.lock]
LockEntry_with(metadata, lock) ==
    IF IsNone(metadata) THEN None ELSE Some(LockEntry(Unwrap(metadata), lock))
LockEntry_deserialize(j) == LockEntry_with(DependencyMetadata_deserialize(j.metadata), j.lock)

\* The text of a file: a JSON object (a function from member names to
\* {metadata, lock} objects), or text that is no JSON document: "garbage"
\* (does not start with '{'), "empty" (zero bytes) or "partial" (a proper
\* prefix of a serialized object).
JsonText(members) == [kind |-> "object", members |-> members]
OtherText(kind) == [kind |-> kind, members |-> << >>]
\* str::trim().starts_with('{')
StartsWithBrace(content) == content.kind \in {"object", "partial"}

\* serde_json::to_string_pretty(&lock_file)
to_string_pretty(lf) == JsonText([k \in DOMAIN lf |-> LockEntry_serialize(lf[k])])
\* a map of entries, when every member deserialized
from_entries(entries) ==
    IF \A k \in DOMAIN entries : IsSome(entries[k])
    THEN Ok([k \in DOMAIN entries |-> Unwrap(entries[k])])
    ELSE Err("JSONParsingError")
\* serde_json::from_str::<LockFile>(content)
from_str(content) ==
    IF content.kind = "object"
    THEN from_entries([k \in DOMAIN content.members |-> LockEntry_deserialize(content.members[k])])
    ELSE Err("JSONParsingError")

\* the file at lock_path
NoFile == [exists |-> FALSE, content |-> OtherText("empty")]
File(content) == [exists |-> TRUE, content |-> content]

\* a validation that accepts every file
validate_parsed_accepts(content, parsed) == [result |-> "ok", message |-> ""]
\* validate_lock_file after from_str: a parsed store whose first entry has an
\* empty dep_type, and text that does not parse, end the process
validate_parsed(content, parsed) ==
    IF parsed.ok
    THEN IF DOMAIN Unwrap(parsed.val) # {}
            /\ Len(Unwrap(parsed.val)[LeastKey(DOMAIN Unwrap(parsed.val))].metadata.dep_type) = 0
         THEN [result |-> "exit", message |-> "not an uptix.lock file"]
         ELSE [result |-> "ok", message |-> ""]
    ELSE IF StartsWithBrace(content)
         THEN [result |-> "exit", message |-> "not an uptix.lock file"]
         ELSE [result |-> "exit", message |-> "not a valid JSON file"]
\* validate_lock_file: "ok", or "exit" (std::process::exit(1)) with the
\* message it prints
validate_lock_file(file) == validate_parsed(file.content, from_str(file.content))

\* ------------------------------------------------- declaration call-sites
StringNode(text) == [kind |-> "NODE_STRING", text |-> <<"\"">> \o text \o <<"\"">>, attrs |-> << >>]
LiteralNode(text) == [kind |-> "NODE_LITERAL", text |-> text, attrs |-> << >>]
AttrSetNode(attrs) == [kind |-> "NODE_ATTR_SET", text |-> << >>, attrs |-> attrs]
\* a NODE_SELECT with its following sibling
CallSite(func, node) == [func |-> func, node |-> node]

\* assert_kind
assert_kind(node, expected_kind) == node.kind = expected_kind

\* the outcome of a constructor: Ok(Some(dep)), Ok(None), Err(e) or a panic
Built(dep) == [status |-> "ok", dep |-> Some(dep)]
Skipped == [status |-> "ok", dep |-> None]
Failed(status) == [status |-> status, dep |-> None]

\* Docker::from(..).expect(..) inside Docker::new
Docker_expect(r) == IF r.panic THEN Failed("panic") ELSE Built(Unwrap(r.dep))
\* a constructor that takes the text of any node for the reference
Docker_new_unchecked(node) == Docker_expect(Docker_from(TrimMatches(node.text, "\"")))

\* Docker::new
Docker_new(node) ==
    IF ~assert_kind(node, "NODE_STRING") THEN Failed("UnexpectedArgument")
    ELSE Docker_expect(Docker_from(TrimMatches(node.text, "\"")))

AttrOption(attrs, f) == IF f \in DOMAIN attrs THEN Some(attrs[f]) ELSE None
\* GitHubRelease::new: util::from_attr_set unwraps the deserialization, which
\* fails when a required attribute is missing
GitHubRelease_new(node) ==
    IF ~assert_kind(node, "NODE_ATTR_SET") THEN Failed("UnexpectedArgument")
    ELSE IF ~({"owner", "repo"} \subseteq DOMAIN node.attrs) THEN Failed("panic")
    ELSE Built(GitHubRelease(node.attrs.owner, node.attrs.repo,
                             AttrOption(node.attrs, "fetchSubmodules"),
                             AttrOption(node.attrs, "deepClone"),
                             AttrOption(node.attrs, "leaveDotGit"),
                             AttrOption(node.attrs, "override_nix_sha256")))

\* GitHubBranch::new
GitHubBranch_new(node) ==
    IF ~assert_kind(node, "NODE_ATTR_SET") THEN Failed("UnexpectedArgument")
    ELSE IF ~({"owner", "repo", "branch"} \subseteq DOMAIN node.attrs) THEN Failed("panic")
    ELSE Built(GitHubBranch(node.attrs.owner, node.attrs.repo, node.attrs.branch,
                            AttrOption(node.attrs, "fetchSubmodules"),
                            AttrOption(node.attrs, "deepClone"),
                            AttrOption(node.attrs, "leaveDotGit"),
                            AttrOption(node.attrs, "override_nix_sha256")))

\* a dispatch that takes every other function for dockerImage
Dependency_new_image_by_default(func, node) ==
    IF func = <<"u", "p", "t", "i", "x", ".", "g", "i", "t", "h", "u", "b", "B", "r", "a", "n", "c", "h">> THEN GitHubBranch_new(node)
    ELSE IF func = <<"u", "p", "t", "i", "x", ".", "g", "i", "t", "h", "u", "b", "R", "e", "l", "e", "a", "s", "e">> THEN GitHubRelease_new(node)
    ELSE Docker_new(node)

\* Dependency::new
Dependency_new(func, node) ==
    IF func = <<"u", "p", "t", "i", "x", ".", "d", "o", "c", "k", "e", "r", "I", "m", "a", "g", "e">> THEN Docker_new(node)
    ELSE IF func = <<"u", "p", "t", "i", "x", ".", "g", "i", "t", "h", "u", "b", "B", "r", "a", "n", "c", "h">> THEN GitHubBranch_new(node)
    ELSE IF func = <<"u", "p", "t", "i", "x", ".", "g", "i", "t", "h", "u", "b", "R", "e", "l", "e", "a", "s", "e">> THEN GitHubRelease_new(node)
    ELSE Skipped

\* The parsing loop of update_command_in_dir over the call-sites of all files,
\* in discovery order: the dependencies, or the first failure.
collect_push(dep, rest) ==
    IF rest.status # "ok" THEN rest ELSE [status |-> "ok", deps |-> dep \o rest.deps]
RECURSIVE collect_dependencies(_)
RECURSIVE collect_next(_, _)
collect_next(d, sites) ==
    IF d.status # "ok" THEN [status |-> d.status, deps |-> << >>]
    ELSE collect_push(d.dep, collect_dependencies(sites))
collect_dependencies(sites) ==
    IF Len(sites) = 0 THEN [status |-> "ok", deps |-> << >>]
    ELSE collect_next(Dependency_new(sites[1].func, sites[1].node), Tail(sites))

\* Iterator::filter(|d| d.matches(dep_pattern))
RECURSIVE filter_matches(_, _)
filter_matches(deps, pattern) ==
    IF Len(deps) = 0 THEN << >>
    ELSE (IF Dependency_matches(deps[1], pattern) THEN << deps[1] >> ELSE << >>)
         \o filter_matches(Tail(deps), pattern)

\* ---------------------------------------------------- the inputs modelled
DigitChars == <<"0", "1", "2", "3", "4", "5", "6", "7", "8", "9">>
\* what the remote side answers at revision r: an image digest, a commit or
\* tag name, a nix hash
DigestAt(r) == <<"s", "h", "a", "2", "5", "6", ":">> \o << DigitChars[r + 1] >>
RevAt(r) == <<"v">> \o << DigitChars[r + 1] >>
HashAt(r) == <<"h">> \o << DigitChars[r + 1] >>

\* the answers lock_with_metadata can meet: of latest_digest, of
\* fetch_image_metadata, of the GitHub API and of nix-prefetch-git
DigestAnswers(revs) ==
    {Err("RegistryError"), Ok(None)} \cup {Ok(Some(DigestAt(r))) : r \in revs}
MetaAnswers ==
    {[friendly_version |-> None, timestamp |-> None],
     [friendly_version |-> Some(<<"1", ".", "0">>), timestamp |-> Some(<<"2", "0", "2", "4", "-", "0", "1", "-", "1", "5", "T", "1", "0", ":", "3", "0", ":", "0", "0", "Z">>)]}
ApiAnswers(revs) == {Err("RequestError")} \cup {Ok(RevAt(r)) : r \in revs}
PrefetchAnswers(revs) == {Err("JSONParsingError")} \cup {Ok(HashAt(r)) : r \in revs}
\* the answers a call of lock_with_metadata meets: those of the registry for
\* an image, those of GitHub and nix-prefetch-git for a source declaration
\* (the answers the call does not ask for are NotAsked)
NotAsked == Err("NotAsked")
DockerWorlds(revs) ==
    [digest : DigestAnswers(revs), meta : MetaAnswers, api : {NotAsked}, prefetch : {NotAsked}]
GitHubWorlds(revs) ==
    [digest : {NotAsked}, meta : {[friendly_version |-> None, timestamp |-> None]},
     api : ApiAnswers(revs), prefetch : PrefetchAnswers(revs)]
WorldsFor(dep, revs) == IF dep.variant = "Docker" THEN DockerWorlds(revs) ELSE GitHubWorlds(revs)
\* the worlds a run can meet, and the world in which earlier runs resolved
Worlds == DockerWorlds(1..MaxRev) \cup GitHubWorlds(1..MaxRev)
OldWorld ==
    [digest |-> Ok(Some(DigestAt(0))), meta |-> [friendly_version |-> None, timestamp |-> None],
     api |-> Ok(RevAt(0)), prefetch |-> Ok(HashAt(0))]

\* declarations found in the project's nix files
SitePostgres15 == CallSite(<<"u", "p", "t", "i", "x", ".", "d", "o", "c", "k", "e", "r", "I", "m", "a", "g", "e">>, StringNode(<<"p", ":", "1">>))
SitePostgres == CallSite(<<"u", "p", "t", "i", "x", ".", "d", "o", "c", "k", "e", "r", "I", "m", "a", "g", "e">>, StringNode(<<"p">>))
SiteRegistry == CallSite(<<"u", "p", "t", "i", "x", ".", "d", "o", "c", "k", "e", "r", "I", "m", "a", "g", "e">>, StringNode(<<"h", ".", "i", "/", "p", ":", "1">>))
SiteRelease == CallSite(<<"u", "p", "t", "i", "x", ".", "g", "i", "t", "h", "u", "b", "R", "e", "l", "e", "a", "s", "e">>, AttrSetNode([owner |-> <<"o">>, repo |-> <<"r">>]))
SiteBranch ==
    CallSite(<<"u", "p", "t", "i", "x", ".", "g", "i", "t", "h", "u", "b", "B", "r", "a", "n", "c", "h">>, AttrSetNode([owner |-> <<"o">>, repo |-> <<"r">>, branch |-> <<"m">>]))
\* uptix.dockerImage 42
SiteWrongShape == CallSite(<<"u", "p", "t", "i", "x", ".", "d", "o", "c", "k", "e", "r", "I", "m", "a", "g", "e">>, LiteralNode(<<"4", "2">>))
\* uptix.dockerImage "P": a string the image grammar rejects
SiteMalformed == CallSite(<<"u", "p", "t", "i", "x", ".", "d", "o", "c", "k", "e", "r", "I", "m", "a", "g", "e">>, StringNode(<<"P">>))
GoodSites == {SitePostgres15, SitePostgres, SiteRegistry, SiteRelease, SiteBranch}
CallSites == GoodSites \cup {SiteWrongShape, SiteMalformed}
Projects == UNION {[1..n -> CallSites] : n \in 0..MaxDecls}

\* the patterns of --dependency and of show
Patterns == {<<"p">>, <<"p", ":", "1">>, <<"o", "/", "r">>, <<"x">>}

\* the dependency a well-formed call-site declares
DependencyAt(site) == Unwrap(Dependency_new(site.func, site.node).dep)
\* the entry an earlier run stored for a dependency, resolved in OldWorld
OldEntry(dep) == Unwrap(Dependency_lock_with_metadata(dep, OldWorld).val)
\* the store holding the old entries of the dependencies ds
OldStore(ds) ==
    [k \in {Dependency_key(d) : d \in ds} |->
        OldEntry(CHOOSE d \in ds : Dependency_key(d) = k)]
\* lock files earlier runs of the program left: the entries of at most MaxOld
\* dependencies
OldDependencies == {DependencyAt(s) : s \in GoodSites}
OldStores == {OldStore(ds) : ds \in {s \in SUBSET OldDependencies : Cardinality(s) <= MaxOld}}
\* an entry as an earlier version of the program wrote it: its metadata
\* carries the member friendly_version (tests/dependency_matching.rs)
LegacyMetadata(j) ==
    [f \in DOMAIN j \cup {"friendly_version"} |->
        IF f = "friendly_version" THEN RevAt(0) ELSE j[f]]
LegacyEntry(entry) ==
    [metadata |-> LegacyMetadata(DependencyMetadata_serialize(entry.metadata)), lock |-> entry.lock]
LegacyMembers ==
    [k \in {GitHubBranch_key(DependencyAt(SiteBranch))} |->
        LegacyEntry(OldEntry(DependencyAt(SiteBranch)))]
\* a JSON object that is no lock store: its member has no metadata members
ForeignMembers == [k \in {<<"p", ":", "1">>} |-> [metadata |-> << >>, lock |-> JsonString(DigestAt(0))]]
\* a JSON object whose first entry has an empty dep_type
BlankTypeMembers ==
    [k \in {<<"p", ":", "1">>} |->
        [metadata |-> [name |-> <<"p">>, dep_type |-> << >>, description |-> << >>],
         lock |-> JsonString(DigestAt(0))]]
InitialFiles ==
    {NoFile, File(OtherText("garbage")), File(OtherText("empty")), File(JsonText(ForeignMembers)),
     File(JsonText(BlankTypeMembers)), File(JsonText(LegacyMembers))}
    \cup {File(to_string_pretty(s)) : s \in OldStores}

\* ------------------------------------------------------------------- state
VARIABLES
    project,                 \* the call-sites of the nix files, in discovery order
    lock_path,               \* the lock file on disk
    command,                 \* the command running: [name, dependency]
    all_dependencies,        \* the dependencies the parsing loop collected
    pc,                      \* "idle", "resolve", "write", "exited", "crashed"
    dependencies_to_update,  \* the dependencies the loop has still to resolve
    lock_file,               \* the LockFile in memory
    exit_code,               \* None while running, Some(code) once exited
    output,                  \* the messages printed, in order
    resolved,                \* history: the calls of lock_with_metadata, [dependency, ok]
    start_file,              \* history: the lock file when the command started
    writes                   \* history: how often the run changed the lock file

vars ==
    <<project, lock_path, command, all_dependencies, pc, dependencies_to_update, lock_file,
      exit_code, output, resolved, start_file, writes>>

NoCommand == [name |-> "none", dependency |-> None]
Command(name, dependency) == [name |-> name, dependency |-> dependency]

Init ==
    /\ project \in Projects
    /\ lock_path \in InitialFiles
    /\ command = NoCommand
    /\ all_dependencies = << >>
    /\ pc = "idle"
    /\ dependencies_to_update = << >>
    /\ lock_file = LockFile_new
    /\ exit_code = None
    /\ output = << >>
    /\ resolved = << >>
    /\ start_file = lock_path
    /\ writes = 0

\* ------------------------------------------------------- update (main.rs)
\* serde_json::from_str(..).unwrap_or_else(|_| LockFile::new())
unwrap_or_new(parsed) == IF parsed.ok THEN Unwrap(parsed.val) ELSE LockFile_new
\* a load that reads the existing file also when no pattern is given
load_lock_file_always(file, dependency) ==
    IF file.exists THEN unwrap_or_new(from_str(file.content)) ELSE LockFile_new
\* the store update starts from: the parsed lock file for a selective update
\* of an existing file (an unparsable one counts as empty), else a new store
load_lock_file(file, dependency) ==
    IF file.exists /\ IsSome(dependency) THEN unwrap_or_new(from_str(file.content))
    ELSE LockFile_new

\* a selection that ignores the pattern
select_all(all, dependency) == all
\* dependencies_to_update: the declarations matching the pattern, or all
select_dependencies(all, dependency) ==
    IF IsSome(dependency) THEN filter_matches(all, Unwrap(dependency))
    ELSE all

\* a filter whose empty result is not reported
not_found_never(all, dependency) == FALSE
\* filtered.is_empty() of a selective update: "not found in the project"
not_found(all, dependency) ==
    IF IsSome(dependency) THEN Len(filter_matches(all, Unwrap(dependency))) = 0
    ELSE FALSE

\* the process ends before the loop, after printing the messages
Ends(code, messages, all) ==
    [ends |-> TRUE, code |-> code, messages |-> messages, all |-> all, deps |-> << >>,
     lock_file |-> LockFile_new]
\* the validation update_command_in_dir runs when the lock file exists
update_validate(file) ==
    IF file.exists THEN validate_lock_file(file) ELSE [result |-> "ok", message |-> ""]
\* update_command_in_dir after validation and parsing: filtering and loading
update_select(file, dependency, v, parsed) ==
    IF v.result = "exit" THEN Ends(1, << v.message >>, << >>)
    ELSE IF parsed.status = "UnexpectedArgument" THEN Ends(1, << "UnexpectedArgument" >>, << >>)
    ELSE IF parsed.status = "panic" THEN Ends(101, << "panic" >>, << >>)
    ELSE IF not_found(parsed.deps, dependency)
    THEN Ends(0, << "Parsing files... Done.", "not found in the project" >>, parsed.deps)
    ELSE [ends |-> FALSE, code |-> 0,
          messages |-> << "Parsing files... Done.", "Looking for updates" >>,
          all |-> parsed.deps,
          deps |-> select_dependencies(parsed.deps, dependency),
          lock_file |-> load_lock_file(file, dependency)]
\* update_command_in_dir up to the loop: validation, parsing, filtering and
\* loading.  Either the process ends (with code and message) or the loop starts.
update_begin(file, sites, dependency) ==
    update_select(file, dependency, update_validate(file), collect_dependencies(sites))

\* a loop body that skips a failed resolution and goes on
update_insert_continues(lf, key, lock_entry) ==
    [returns |-> FALSE,
     lock_file |-> IF lock_entry.ok THEN LockFile_insert(lf, key, Unwrap(lock_entry.val)) ELSE lf]
\* the loop body after lock_with_metadata: a failed resolution returns from
\* the command, a successful one inserts the entry under the dependency's key
update_insert(lf, key, lock_entry) ==
    IF ~lock_entry.ok THEN [returns |-> TRUE, lock_file |-> lf]
    ELSE [returns |-> FALSE, lock_file |-> LockFile_insert(lf, key, Unwrap(lock_entry.val))]
\* one iteration of the loop
update_resolve(lf, dependency, w) ==
    update_insert(lf, Dependency_key(dependency), Dependency_lock_with_metadata(dependency, w))

\* the process ends with an exit code after printing a message
Exit(code, message) ==
    /\ pc' = "exited"
    /\ exit_code' = Some(code)
    /\ output' = Append(output, message)

UpdateBegun(b) ==
    /\ all_dependencies' = b.all
    /\ output' = output \o b.messages
    /\ IF b.ends
       THEN /\ pc' = "exited"
            /\ exit_code' = Some(b.code)
            /\ UNCHANGED <<dependencies_to_update, lock_file>>
       ELSE /\ pc' = "resolve"
            /\ dependencies_to_update' = b.deps
            /\ lock_file' = b.lock_file
            /\ UNCHANGED exit_code
UpdateBegin(dependency) ==
    /\ pc = "idle"
    /\ command' = Command("update", dependency)
    /\ UpdateBegun(update_begin(lock_path, project, dependency))
    /\ UNCHANGED <<project, lock_path, resolved, start_file, writes>>

\* the record of a call of lock_with_metadata: the dependency and whether the
\* call returned Ok
Resolution(dependency, w) ==
    [dependency |-> dependency, ok |-> Dependency_lock_with_metadata(dependency, w).ok]
UpdateResolved(r) ==
    /\ lock_file' = r.lock_file
    /\ IF r.returns
       THEN /\ Exit(0, "Error while updating dependency")
            /\ UNCHANGED dependencies_to_update
       ELSE /\ dependencies_to_update' = Tail(dependencies_to_update)
            /\ UNCHANGED <<pc, exit_code, output>>
UpdateResolve(w) ==
    /\ pc = "resolve"
    /\ Len(dependencies_to_update) > 0
    /\ w \in WorldsFor(Head(dependencies_to_update), 1..MaxRev)
    /\ resolved' = Append(resolved, Resolution(Head(dependencies_to_update), w))
    /\ UpdateResolved(update_resolve(lock_file, Head(dependencies_to_update), w))
    /\ UNCHANGED <<project, lock_path, command, all_dependencies, start_file, writes>>

\* fs::File::create: the file exists and is empty afterwards; a failure
\* panics ("Error creating uptix.lock") and leaves the file alone
UpdateCreate(succeeds) ==
    /\ pc = "resolve"
    /\ Len(dependencies_to_update) = 0
    /\ IF succeeds
       THEN /\ lock_path' = File(OtherText("empty"))
            /\ writes' = writes + 1
            /\ pc' = "write"
            /\ UNCHANGED <<exit_code, output>>
       ELSE /\ Exit(101, "panic")
            /\ UNCHANGED <<lock_path, writes>>
    /\ UNCHANGED <<project, command, all_dependencies, dependencies_to_update, lock_file,
                   resolved, start_file>>

\* file.write_all(json): afterwards the file holds the serialized store; a
\* failure panics ("Error writing JSON to uptix.lock") with none or some of
\* the bytes written
UpdateWrite(written) ==
    /\ pc = "write"
    /\ IF written = "all"
       THEN /\ lock_path' = File(to_string_pretty(lock_file))
            /\ Exit(0, "Wrote uptix.lock successfully")
       ELSE /\ lock_path' = File(OtherText(written))
            /\ Exit(101, "panic")
    /\ writes' = writes + 1
    /\ UNCHANGED <<project, command, all_dependencies, dependencies_to_update, lock_file,
                   resolved, start_file>>

\* the process is killed between File::create and write_all
Crash ==
    /\ pc = "write"
    /\ pc' = "crashed"
    /\ UNCHANGED <<project, lock_path, command, all_dependencies, dependencies_to_update,
                   lock_file, exit_code, output, resolved, start_file, writes>>

\* ------------------------------------------------- list, show and init
\* what displaying an entry ends with: from_lock_entry decides (0: displayed,
\* 1: the error is returned from main, 101: a panic)
reconstruct_code(r) == IF r.panic THEN 101 ELSE IF r.ok THEN 0 ELSE 1
display_code(entry) == reconstruct_code(Dependency_from_lock_entry(entry))

\* a list that ignores the entries it cannot display
list_codes_ignored(codes) == [code |-> 0, message |-> "Dependencies in uptix.lock"]
\* the loop of list_command_in_dir over the entries in key order: the first
\* entry that cannot be displayed ends the command
list_codes(codes) ==
    IF \A i \in 1..Len(codes) : codes[i] = 0
    THEN [code |-> 0, message |-> "Dependencies in uptix.lock"]
    ELSE [code |-> codes[MinOf({i \in 1..Len(codes) : codes[i] # 0})],
          message |-> "reconstruction failed"]
list_keys(lf, keys) == list_codes([i \in 1..Len(keys) |-> display_code(lf[keys[i]])])
list_parsed(parsed) ==
    IF ~parsed.ok THEN [code |-> 1, message |-> "JSONParsingError"]
    ELSE IF DOMAIN Unwrap(parsed.val) = {}
    THEN [code |-> 0, message |-> "No dependencies in uptix.lock"]
    ELSE list_keys(Unwrap(parsed.val), SortedKeys(DOMAIN Unwrap(parsed.val)))
\* list_command_in_dir: the exit code and the last message
list_command_in_dir(file) ==
    IF ~file.exists THEN [code |-> 0, message |-> "No uptix.lock file found"]
    ELSE list_parsed(from_str(file.content))

\* display_dependency_details
shown(code) ==
    [code |-> code, message |-> IF code = 0 THEN "Dependency Key" ELSE "reconstruction failed"]
\* the partial match of show: the first key, in key order, containing the text
show_partial(lf, keys, hits) ==
    IF hits = {} THEN [code |-> 0, message |-> "not found in uptix.lock"]
    ELSE shown(display_code(lf[keys[MinOf(hits)]]))
show_keys(lf, keys, dependency) ==
    show_partial(lf, keys, {i \in 1..Len(keys) : ContainsStr(keys[i], dependency)})
show_parsed(parsed, dependency) ==
    IF ~parsed.ok THEN [code |-> 1, message |-> "JSONParsingError"]
    ELSE IF dependency \in DOMAIN Unwrap(parsed.val)
    THEN shown(display_code(Unwrap(parsed.val)[dependency]))
    ELSE show_keys(Unwrap(parsed.val), SortedKeys(DOMAIN Unwrap(parsed.val)), dependency)
\* show_command_in_dir
show_command_in_dir(file, dependency) ==
    IF ~file.exists THEN [code |-> 0, message |-> "No uptix.lock file found"]
    ELSE show_parsed(from_str(file.content), dependency)

\* main after a command that does not write returned r
Returned(r) == Exit(r.code, r.message)

ListCommand ==
    /\ pc = "idle"
    /\ command' = Command("list", None)
    /\ Returned(list_command_in_dir(lock_path))
    /\ UNCHANGED <<project, lock_path, all_dependencies, dependencies_to_update, lock_file,
                   resolved, start_file, writes>>

ShowCommand(dependency) ==
    /\ pc = "idle"
    /\ command' = Command("show", Some(dependency))
    /\ Returned(show_command_in_dir(lock_path, dependency))
    /\ UNCHANGED <<project, lock_path, all_dependencies, dependencies_to_update, lock_file,
                   resolved, start_file, writes>>

\* an init that writes the empty store over an existing file
InitCommand_overwrites(written) ==
    /\ pc = "idle"
    /\ command' = Command("init", None)
    /\ IF written = "all"
       THEN /\ lock_path' = File(to_string_pretty(LockFile_new))
            /\ writes' = writes + 1
            /\ Exit(0, IF lock_path.exists THEN "uptix.lock already exists"
                       ELSE "Created empty uptix.lock file")
       ELSE IF written = "none"
       THEN /\ Exit(1, "IOError")
            /\ UNCHANGED <<lock_path, writes>>
       ELSE /\ lock_path' = File(OtherText(written))
            /\ writes' = writes + 1
            /\ Exit(1, "IOError")
    /\ UNCHANGED <<project, all_dependencies, dependencies_to_update, lock_file, resolved,
                   start_file>>

\* init_command_in_dir: fs::write creates the file and writes "{}"; it can
\* fail before the file exists or with the file left empty
InitCommand(written) ==
    /\ pc = "idle"
    /\ command' = Command("init", None)
    /\ IF lock_path.exists
       THEN /\ Exit(0, "uptix.lock already exists")
            /\ UNCHANGED <<lock_path, writes>>
       ELSE IF written = "all"
       THEN /\ lock_path' = File(to_string_pretty(LockFile_new))
            /\ writes' = writes + 1
            /\ Exit(0, "Created empty uptix.lock file")
       ELSE IF written = "none"
       THEN /\ Exit(1, "IOError")
            /\ UNCHANGED <<lock_path, writes>>
       ELSE /\ lock_path' = File(OtherText(written))
            /\ writes' = writes + 1
            /\ Exit(1, "IOError")
    /\ UNCHANGED <<project, all_dependencies, dependencies_to_update, lock_file, resolved,
                   start_file>>

Next ==
    \/ \E dependency \in {None} \cup {Some(p) : p \in Patterns} : UpdateBegin(dependency)
    \/ \E w \in Worlds : UpdateResolve(w)
    \/ \E succeeds \in BOOLEAN : UpdateCreate(succeeds)
    \/ \E written \in {"all", "empty", "partial"} : UpdateWrite(written)
    \/ Crash
    \/ ListCommand
    \/ \E dependency \in Patterns : ShowCommand(dependency)
    \/ \E written \in {"all", "none", "empty", "partial"} : InitCommand(written)

Spec == Init /\ [][Next]_vars

\* -------------------------------------------------------------- properties
LastOutput == IF Len(output) = 0 THEN "" ELSE output[Len(output)]
\* the update run wrote the lock file and returned
Wrote == command.name = "update" /\ pc = "exited" /\ LastOutput = "Wrote uptix.lock successfully"
\* all_dependencies: what the parsing loop discovers in the project
Discovered == collect_dependencies(project)
Range(s) == {s[i] : i \in DOMAIN s}
\* the pattern of the command
Pattern == Unwrap(command.dependency)
\* the run printed "Done." after the parsing loop: the declarations are
\* discovered
Parsed == \E i \in 1..Len(output) : output[i] = "Parsing files... Done."
\* the discovered declarations matching a pattern, and their keys
Matching(pattern) == {d \in Range(all_dependencies) : Dependency_matches(d, pattern)}
MatchingKeys(pattern) == {Dependency_key(d) : d \in Matching(pattern)}
\* the members of the JSON object a file holds (none when it holds no object)
Members(file) ==
    IF file.exists /\ file.content.kind = "object" THEN file.content.members ELSE LockFile_new
\* the store a file parses to (empty when it is missing or does not parse)
Stored(file) == IF file.exists THEN unwrap_or_new(from_str(file.content)) ELSE LockFile_new
\* an existing file that does not parse as a mapping from key to {metadata, lock}
Unparsable(file) == file.exists /\ ~from_str(file.content).ok
\* an existing file validate_lock_file rejects
Corrupt(file) == file.exists /\ validate_lock_file(file).result = "exit"

\* C1: after a successful `update --dependency P` on an existing lock file,
\* every stored entry whose key is not the key of a declaration matching P is
\* in the rewritten file exactly as before: same key, same metadata members
\* and values, same lock payload.
C1_UnmatchedEntriesUntouched ==
    (Wrote /\ IsSome(command.dependency) /\ start_file.exists) =>
        \A k \in DOMAIN Members(start_file) \ MatchingKeys(Pattern) :
            /\ k \in DOMAIN Members(lock_path)
            /\ Members(lock_path)[k] = Members(start_file)[k]

\* C2: if lock_with_metadata fails for a dependency of an update run, the run
\* stops at that dependency (it is the last one resolved and the process has
\* ended) and the lock file on disk is as it was before the run.
C2_FailedResolutionStopsRun ==
    \A i \in 1..Len(resolved) :
        ~resolved[i].ok =>
            /\ i = Len(resolved)
            /\ pc = "exited"
            /\ lock_path = start_file
            /\ writes = 0
\* a run whose first resolution failed with another dependency still to
\* resolve, on an existing lock file
C2_Witness ==
    /\ Len(resolved) = 1
    /\ ~resolved[1].ok
    /\ Len(dependencies_to_update) > 1
    /\ start_file.exists

\* C3: after a successful update with no pattern, the keys of the written
\* lock file are exactly the keys of the declarations discovered in the run.
C3_FullUpdateKeys ==
    (Wrote /\ IsNone(command.dependency)) =>
        DOMAIN Members(lock_path) = {Dependency_key(d) : d \in Range(all_dependencies)}
\* a full update that dropped an entry of the previous lock file and wrote
\* the entries of two declarations
C3_Witness ==
    /\ Wrote
    /\ IsNone(command.dependency)
    /\ Len(resolved) = 2
    /\ DOMAIN Members(start_file) \ DOMAIN Members(lock_path) # {}

C5_AtomicRewrite ==
    command.name = "update" =>
        \/ lock_path = start_file
        \/ lock_path = File(to_string_pretty(lock_file))

\* C6: when `update --dependency P` discovers no declaration matching P, it
\* exits 0 after reporting 'not found', resolves nothing and leaves the lock
\* file untouched, present or absent.
C6_NotFoundLeavesLockFile ==
    (command.name = "update" /\ IsSome(command.dependency) /\ Parsed
     /\ Matching(Pattern) = {}) =>
        /\ pc = "exited"
        /\ exit_code = Some(0)
        /\ LastOutput = "not found in the project"
        /\ resolved = << >>
        /\ lock_path = start_file
        /\ writes = 0
\* a pattern no declaration of a project with declarations matches, with a
\* lock file present
C6_Witness ==
    /\ command.name = "update"
    /\ IsSome(command.dependency)
    /\ Parsed
    /\ Len(all_dependencies) > 0
    /\ Matching(Pattern) = {}
    /\ start_file.exists
    /\ pc = "exited"

\* C7: in a selective update the dependencies resolved and merged are exactly
\* the discovered declarations matching P: every one resolved matches, after
\* a successful run every matching one was resolved and has its entry, and
\* the entry of a declaration that does not match is the one loaded (or none).
C7_ExactlyTheMatches ==
    (command.name = "update" /\ IsSome(command.dependency)) =>
        /\ \A i \in 1..Len(resolved) : resolved[i].dependency \in Matching(Pattern)
        /\ Wrote =>
            /\ \A d \in Matching(Pattern) :
                  /\ \E i \in 1..Len(resolved) : resolved[i].dependency = d /\ resolved[i].ok
                  /\ Dependency_key(d) \in DOMAIN lock_file
            /\ \A d \in Range(all_dependencies) \ Matching(Pattern) :
                  IF Dependency_key(d) \in DOMAIN Stored(start_file)
                  THEN /\ Dependency_key(d) \in DOMAIN lock_file
                       /\ lock_file[Dependency_key(d)] = Stored(start_file)[Dependency_key(d)]
                  ELSE Dependency_key(d) \notin DOMAIN lock_file
\* a successful selective update whose pattern matched two declarations
C7_Witness ==
    /\ Wrote
    /\ IsSome(command.dependency)
    /\ Len(resolved) = 2
    /\ resolved[1].dependency # resolved[2].dependency
\* the dependencies reconstructed from the entries of a store that match
StoredMatching(store, pattern) ==
    {r.dep[1] : r \in {x \in {Dependency_from_lock_entry(store[k]) : k \in DOMAIN store} :
                         x.ok /\ Dependency_matches(x.dep[1], pattern)}}

\* C8: when `update --dependency P` finds no declaration matching P but the
\* lock file holds an entry whose reconstructed dependency matches P, the run
\* resolves the dependency reconstructed from that entry.
C8_FallbackToStoredEntry ==
    (command.name = "update" /\ IsSome(command.dependency) /\ pc = "exited" /\ Parsed
     /\ Matching(Pattern) = {} /\ StoredMatching(Stored(start_file), Pattern) # {}) =>
        \E i \in 1..Len(resolved) :
            resolved[i].dependency \in StoredMatching(Stored(start_file), Pattern)

\* the entries show displays for a text: the entry under that key, else the
\* first in key order whose key contains the text
ShownKeys(store, text) ==
    IF text \in DOMAIN store THEN {text}
    ELSE {k \in DOMAIN store :
            /\ ContainsStr(k, text)
            /\ \A o \in DOMAIN store \ {k} : ContainsStr(o, text) => StrLess(k, o)}
\* an entry from_lock_entry reconstructs a dependency from
Rebuilds(entry) == Dependency_from_lock_entry(entry).ok
\* the outcomes that end a command with a non-zero exit code
NonZeroCause ==
    \/ command.name = "update" /\ Corrupt(start_file)
    \/ command.name = "update" /\ ~Corrupt(start_file) /\ Discovered.status # "ok"
    \/ command.name = "update" /\ dependencies_to_update = << >> /\ LastOutput = "panic"
    \/ command.name = "init" /\ LastOutput = "IOError"
    \/ command.name \in {"list", "show"} /\ Unparsable(start_file)
    \/ /\ command.name = "list"
       /\ \E k \in DOMAIN Stored(start_file) : ~Rebuilds(Stored(start_file)[k])
    \/ /\ command.name = "show"
       /\ \E k \in ShownKeys(Stored(start_file), Pattern) : ~Rebuilds(Stored(start_file)[k])

C10_RoundTrip ==
    \A i \in 1..Len(resolved) :
        resolved[i].ok =>
            /\ Dependency_key(resolved[i].dependency) \in DOMAIN lock_file
            /\ Rebuilds(lock_file[Dependency_key(resolved[i].dependency)])
            /\ Dependency_key(Dependency_from_lock_entry(
                   lock_file[Dependency_key(resolved[i].dependency)]).dep[1])
               = Dependency_key(resolved[i].dependency)

\* ------------------------------------------- selection and keys (update)
\* declarations of images (with a tag, without one, at another registry), of
\* releases (options unset, set to false, set to true, with a hash override)
\* and of two branches of one repository
SelectSites ==
    {CallSite(<<"u", "p", "t", "i", "x", ".", "d", "o", "c", "k", "e", "r", "I", "m", "a", "g", "e">>, StringNode(<<"p", "g", ":", "1">>)),
     CallSite(<<"u", "p", "t", "i", "x", ".", "d", "o", "c", "k", "e", "r", "I", "m", "a", "g", "e">>, StringNode(<<"p", "g">>)),
     CallSite(<<"u", "p", "t", "i", "x", ".", "d", "o", "c", "k", "e", "r", "I", "m", "a", "g", "e">>, StringNode(<<"h", ".", "i", "/", "p", "g", ":", "1">>)),
     CallSite(<<"u", "p", "t", "i", "x", ".", "g", "i", "t", "h", "u", "b", "R", "e", "l", "e", "a", "s", "e">>, AttrSetNode([owner |-> <<"o">>, repo |-> <<"r">>])),
     CallSite(<<"u", "p", "t", "i", "x", ".", "g", "i", "t", "h", "u", "b", "R", "e", "l", "e", "a", "s", "e">>,
              AttrSetNode([owner |-> <<"o">>, repo |-> <<"r">>, fetchSubmodules |-> FALSE])),
     CallSite(<<"u", "p", "t", "i", "x", ".", "g", "i", "t", "h", "u", "b", "R", "e", "l", "e", "a", "s", "e">>,
              AttrSetNode([owner |-> <<"o">>, repo |-> <<"r">>, fetchSubmodules |-> TRUE])),
     CallSite(<<"u", "p", "t", "i", "x", ".", "g", "i", "t", "h", "u", "b", "R", "e", "l", "e", "a", "s", "e">>,
              AttrSetNode([owner |-> <<"o">>, repo |-> <<"r">>, override_nix_sha256 |-> <<"x">>])),
     CallSite(<<"u", "p", "t", "i", "x", ".", "g", "i", "t", "h", "u", "b", "B", "r", "a", "n", "c", "h">>, AttrSetNode([owner |-> <<"o">>, repo |-> <<"r">>, branch |-> <<"m">>])),
     CallSite(<<"u", "p", "t", "i", "x", ".", "g", "i", "t", "h", "u", "b", "B", "r", "a", "n", "c", "h">>, AttrSetNode([owner |-> <<"o">>, repo |-> <<"r">>, branch |-> <<"d">>]))}
SelectProjects == UNION {[1..n -> SelectSites] : n \in 1..MaxDecls}
\* the patterns of --dependency: names, a name with another tag, a prefix of
\* a name, owner/repo, a bare owner, a bare repo, owner/repo:branch, another
\* repository, and internal keys
SelectPatterns ==
    {<<"p", "g">>, <<"p", "g", ":", "1">>, <<"p", "g", ":", "2">>, <<"p">>, <<"h", ".", "i", "/", "p", "g", ":", "1">>, <<"o", "/", "r">>, <<"o">>, <<"r">>, <<"o", "/", "r", ":", "m">>, <<"o", "/", "q">>,
     <<"$", "G", "I", "T", "H", "U", "B", "_", "R", "E", "L", "E", "A", "S", "E", "$", ":", "o", "/", "r", "$">>, <<"$", "G", "I", "T", "H", "U", "B", "_", "R", "E", "L", "E", "A", "S", "E", "$", ":", "o", "/", "r", "$", "f">>, <<"$", "G", "I", "T", "H", "U", "B", "_", "B", "R", "A", "N", "C", "H", "$", ":", "o", "/", "r", ":", "m", "$">>}
\* remote sides that answer every call
AnsweredWorlds ==
    {[digest |-> Ok(Some(DigestAt(1))), meta |-> [friendly_version |-> None, timestamp |-> None],
      api |-> NotAsked, prefetch |-> NotAsked],
     [digest |-> NotAsked, meta |-> [friendly_version |-> None, timestamp |-> None],
      api |-> Ok(RevAt(1)), prefetch |-> Ok(HashAt(1))]}

\* update runs, selective or not, of projects without a lock file
InitSelect ==
    /\ project \in SelectProjects
    /\ lock_path = NoFile
    /\ command = NoCommand
    /\ all_dependencies = << >>
    /\ pc = "idle"
    /\ dependencies_to_update = << >>
    /\ lock_file = LockFile_new
    /\ exit_code = None
    /\ output = << >>
    /\ resolved = << >>
    /\ start_file = lock_path
    /\ writes = 0
NextSelect ==
    \/ \E dependency \in {None} \cup {Some(p) : p \in SelectPatterns} : UpdateBegin(dependency)
    \/ \E w \in AnsweredWorlds : UpdateResolve(w)
SpecSelect == InitSelect /\ [][NextSelect]_vars

\* the fields of a declaration the key is said to tell apart, as declared
DeclaredFields(d) ==
    CASE d.variant = "Docker" -> <<d.variant, d.registry, d.image, d.tag>>
      [] d.variant = "GitHubRelease" ->
            <<d.variant, d.owner, d.repo, d.fetchSubmodules, d.deepClone, d.leaveDotGit>>
      [] d.variant = "GitHubBranch" ->
            <<d.variant, d.owner, d.repo, d.branch, d.fetchSubmodules, d.deepClone, d.leaveDotGit>>
\* the same fields with an unset option taken as false, and the raw name of
\* an image
KeyFields(d) ==
    CASE d.variant = "Docker" -> <<d.variant, d.name>>
      [] d.variant = "GitHubRelease" ->
            <<d.variant, d.owner, d.repo, UnwrapOr(d.fetchSubmodules, FALSE),
              UnwrapOr(d.deepClone, FALSE), UnwrapOr(d.leaveDotGit, FALSE)>>
      [] d.variant = "GitHubBranch" ->
            <<d.variant, d.owner, d.repo, d.branch, UnwrapOr(d.fetchSubmodules, FALSE),
              UnwrapOr(d.deepClone, FALSE), UnwrapOr(d.leaveDotGit, FALSE)>>

AnsweredWorld(dep) == CHOOSE w \in AnsweredWorlds : w \in WorldsFor(dep, 1..MaxRev)
\* the loop of update_command_in_dir over deps, in that order, from the store
\* lf, every call answered
RECURSIVE merge_all(_, _)
merge_all(lf, deps) ==
    IF Len(deps) = 0 THEN lf
    ELSE merge_all(update_resolve(lf, deps[1], AnsweredWorld(deps[1])).lock_file, Tail(deps))
\* the orders of a sequence
Orders(s) == {[i \in 1..Len(s) |-> s[p[i]]] : p \in Permutations(1..Len(s))}
\* the dependencies the run resolved, in the order of the run
Selected == [i \in 1..Len(resolved) |-> resolved[i].dependency]
\* the loop of the update run is over, every selected dependency resolved
Merged == command.name = "update" /\ pc = "resolve" /\ dependencies_to_update = << >>

\* C12: the lock store at the end of the loop of an update run is the store
\* every order of resolving and merging the selected dependencies gives, and
\* merging an entry of the store under its key again leaves the store as it is.
C12_OrderIndependentMerge ==
    Merged =>
        /\ \A deps \in Orders(Selected) : merge_all(LockFile_new, deps) = lock_file
        /\ \A k \in DOMAIN lock_file : LockFile_insert(lock_file, k, lock_file[k]) = lock_file

\* ------------------------------------------- resolution over the network
\* The call lock_with_metadata makes for the next dependency goes to a host
\* that accepts the request and never answers.  The clients are built without
\* a timeout (reqwest::Client::new(), dkregistry's Client::configure()) and
\* nix-prefetch-git is waited for with Command::output(), so the await never
\* completes: no step of the run is enabled afterwards.
UpdateAwait ==
    /\ pc = "resolve"
    /\ Len(dependencies_to_update) > 0
    /\ pc' = "awaiting"
    /\ UNCHANGED <<project, lock_path, command, all_dependencies, dependencies_to_update,
                   lock_file, exit_code, output, resolved, start_file, writes>>
NextNet ==
    \/ \E dependency \in {None} \cup {Some(p) : p \in SelectPatterns} : UpdateBegin(dependency)
    \/ \E w \in Worlds : UpdateResolve(w)
    \/ UpdateAwait
    \/ \E succeeds \in BOOLEAN : UpdateCreate(succeeds)
    \/ \E written \in {"all", "empty", "partial"} : UpdateWrite(written)
\* update runs whose process, once in the loop, is scheduled as long as it
\* has a step to take: a call that was answered returns, the file is created
\* and written
SpecNet ==
    /\ InitSelect
    /\ [][NextNet]_vars
    /\ WF_vars(\E w \in Worlds : UpdateResolve(w))
    /\ WF_vars(\E succeeds \in BOOLEAN : UpdateCreate(succeeds))
    /\ WF_vars(\E written \in {"all", "empty", "partial"} : UpdateWrite(written))

\* C13: an update run that started resolving terminates, also when a
\* registry or API host never answers a call made during resolution.
C13_UpdateTerminates == (pc = "resolve") ~> (pc = "exited")

\* a selective update has parsed the project and filtered the declarations,
\* and has not resolved any yet
Selecting ==
    command.name = "update" /\ IsSome(command.dependency) /\ Parsed /\ resolved = << >>
\* the declarations the filter kept
Kept == Range(dependencies_to_update)
\* the discovered declarations of a kind
Declared(variant) == {d \in Range(all_dependencies) : d.variant = variant}

\* C14: in a selective update with pattern P an image declaration is selected
\* exactly when P is its raw declared name, or its registry is the default, P
\* holds no ':' and P is its repository path; so a pattern with another tag,
\* a strict prefix of the name, and a registry-less pattern against an image
\* of another registry select nothing.
C14_ImageSelection ==
    Selecting =>
        \A d \in Declared("Docker") :
            /\ d \in Kept <=>
                  \/ Pattern = d.name
                  \/ /\ d.registry = DEFAULT_REGISTRY
                     /\ \A i \in 1..Len(Pattern) : Pattern[i] # ":"
                     /\ Pattern = d.image
            /\ (Contains(Pattern, ":") /\ Pattern # d.name) => d \notin Kept
            /\ (Len(Pattern) < Len(d.image) /\ Pattern # d.name) => d \notin Kept
            /\ (d.registry # DEFAULT_REGISTRY /\ Pattern # d.name) => d \notin Kept
\* the pattern pg selected the image declared as pg:1 and left the image
\* h.i/pg:1 of another registry
C14_Witness ==
    /\ Selecting
    /\ Pattern = <<"p", "g">>
    /\ \E d \in Declared("Docker") \cap Kept : d.name = <<"p", "g", ":", "1">>
    /\ \E d \in Declared("Docker") \ Kept : d.name = <<"h", ".", "i", "/", "p", "g", ":", "1">> /\ d.image = <<"p", "g">>

\* owner/repo of a source-control declaration
OwnerRepo(d) == d.owner \o <<"/">> \o d.repo

\* C15: in a selective update with pattern P a release declaration is selected
\* exactly when P is its key, or P holds no ':' and is owner/repo of the
\* declaration; so a bare owner, a bare repo, owner/repo with a ':branch'
\* suffix and another owner/repo select no release, and owner/repo selects
\* the release whatever its flags.
C15_ReleaseSelection ==
    Selecting =>
        \A d \in Declared("GitHubRelease") :
            /\ d \in Kept <=>
                  \/ Pattern = Dependency_key(d)
                  \/ /\ \A i \in 1..Len(Pattern) : Pattern[i] # ":"
                     /\ Pattern = OwnerRepo(d)
            /\ Pattern \in {d.owner, d.repo} => d \notin Kept
            /\ (\E branch \in {<<"m">>, <<"d">>} : Pattern = OwnerRepo(d) \o <<":">> \o branch)
                   => d \notin Kept
            /\ (Pattern # Dependency_key(d) /\ Pattern # OwnerRepo(d)) => d \notin Kept
            /\ Pattern = OwnerRepo(d) => d \in Kept
\* the pattern o/r selected a release declared with fetchSubmodules = true,
\* whose key ends in the flag letter
C15_Witness ==
    /\ Selecting
    /\ Pattern = <<"o", "/", "r">>
    /\ \E d \in Declared("GitHubRelease") \cap Kept :
          d.fetchSubmodules = Some(TRUE) /\ Dependency_key(d) # <<"$", "G", "I", "T", "H", "U", "B", "_", "R", "E", "L", "E", "A", "S", "E", "$", ":", "o", "/", "r", "$">>

OwnerRepoBranch(d) == OwnerRepo(d) \o <<":">> \o d.branch

\* C17: in a selective update whose pattern is owner/repo:branch of a
\* declared branch, the declarations selected are exactly the declared
\* branches with that owner, repo and branch.
C17_BranchPatternSelection ==
    (Selecting /\ \E d \in Declared("GitHubBranch") : Pattern = OwnerRepoBranch(d)) =>
        Kept = {d \in Declared("GitHubBranch") : Pattern = OwnerRepoBranch(d)}

\* ---------------------------------------- image resolution (the registry)
\* images of the default registry and of another one
ImageSites ==
    {CallSite(<<"u", "p", "t", "i", "x", ".", "d", "o", "c", "k", "e", "r", "I", "m", "a", "g", "e">>, StringNode(<<"p", "g", ":", "1">>)),
     CallSite(<<"u", "p", "t", "i", "x", ".", "d", "o", "c", "k", "e", "r", "I", "m", "a", "g", "e">>, StringNode(<<"h", ".", "i", "/", "p", "g", ":", "1">>))}
\* bytes that are no JSON document
NotJson == [t |-> "Invalid", s |-> << >>, o |-> << >>]
\* the config blobs a registry serves: with both version labels, with the
\* label version only, with no labels, without Labels, without config, empty,
\* with a label and no creation time, with a creation time holding no 'T',
\* with a creation time that is no string, and bytes that are no JSON
ConfigBlobs ==
    {JsonObject([created |-> JsonString(<<"2", "0", "2", "4", "-", "0", "1", "-", "1", "5", "T", "1", "0", ":", "3", "0", ":", "0", "0", "Z">>),
                 config |-> JsonObject([Labels |-> JsonObject(
                     ("org.opencontainers.image.version" :> JsonString(<<"2", ".", "0">>))
                     @@ ("version" :> JsonString(<<"1", ".", "0">>)))])]),
     JsonObject([created |-> JsonString(<<"2", "0", "2", "4", "-", "0", "1", "-", "1", "5", "T", "1", "0", ":", "3", "0", ":", "0", "0", "Z">>),
                 config |-> JsonObject([Labels |-> JsonObject([version |-> JsonString(<<"1", ".", "0">>)])])]),
     JsonObject([created |-> JsonString(<<"2", "0", "2", "4", "-", "0", "1", "-", "1", "5", "T", "1", "0", ":", "3", "0", ":", "0", "0", "Z">>),
                 config |-> JsonObject([Labels |-> JsonObject(<< >>)])]),
     JsonObject([created |-> JsonString(<<"2", "0", "2", "4", "-", "0", "1", "-", "1", "5", "T", "1", "0", ":", "3", "0", ":", "0", "0", "Z">>), config |-> JsonObject(<< >>)]),
     JsonObject([created |-> JsonString(<<"2", "0", "2", "4", "-", "0", "1", "-", "1", "5", "T", "1", "0", ":", "3", "0", ":", "0", "0", "Z">>)]),
     JsonObject(<< >>),
     JsonObject([config |-> JsonObject([Labels |-> JsonObject(
                     "org.opencontainers.image.version" :> JsonString(<<"2", ".", "0">>))])]),
     JsonObject([created |-> JsonString(<<"2", "0", "2", "4">>)]),
     JsonObject([created |-> [t |-> "Number", s |-> << >>, o |-> << >>]]),
     NotJson}
\* what the registry answers to the calls of fetch_image_metadata: whether
\* each authenticated client can be built, the manifest of the tag, the
\* manifest of the first platform of a manifest list, the config blob
RegistryAnswers ==
    [clients : [manifest : BOOLEAN, platform : BOOLEAN, blob : BOOLEAN],
     manifest : {Err("RegistryError"), Ok([kind |-> "S2", manifests |-> << >>]),
                 Ok([kind |-> "ML", manifests |-> << DigestAt(0) >>]),
                 Ok([kind |-> "ML", manifests |-> << >>]),
                 Ok([kind |-> "S1Signed", manifests |-> << >>])},
     platform_manifest : {Err("RegistryError"), Ok([kind |-> "S2"]), Ok([kind |-> "S1Signed"])},
     blob : {Err("RegistryError")} \cup {Ok(b) : b \in ConfigBlobs}]
\* the answers lock_with_metadata of an image meets
ImageWorld(digest, reg) ==
    [digest |-> digest, meta |-> fetch_image_metadata(reg), api |-> NotAsked, prefetch |-> NotAsked]
\* the record of a call of lock_with_metadata of an image: the answers of the
\* registry and what the call returned
Answered(dependency, digest, reg, result) ==
    [dependency |-> dependency, ok |-> result.ok, digest |-> digest, registry |-> reg,
     result |-> result]
Asked(dependency, digest, reg) ==
    Answered(dependency, digest, reg,
             Dependency_lock_with_metadata(dependency, ImageWorld(digest, reg)))
\* one iteration of the loop on an image, against a registry
UpdateResolveImage(digest, reg) ==
    /\ pc = "resolve"
    /\ Len(dependencies_to_update) > 0
    /\ Head(dependencies_to_update).variant = "Docker"
    /\ resolved' = Append(resolved, Asked(Head(dependencies_to_update), digest, reg))
    /\ UpdateResolved(update_resolve(lock_file, Head(dependencies_to_update),
                                     ImageWorld(digest, reg)))
    /\ UNCHANGED <<project, lock_path, command, all_dependencies, start_file, writes>>

\* full updates of projects declaring one image, without a lock file
InitImage ==
    /\ project \in [1..1 -> ImageSites]
    /\ lock_path = NoFile
    /\ command = NoCommand
    /\ all_dependencies = << >>
    /\ pc = "idle"
    /\ dependencies_to_update = << >>
    /\ lock_file = LockFile_new
    /\ exit_code = None
    /\ output = << >>
    /\ resolved = << >>
    /\ start_file = lock_path
    /\ writes = 0
NextImage ==
    \/ UpdateBegin(None)
    \/ \E digest \in DigestAnswers(1..MaxRev), reg \in RegistryAnswers :
          UpdateResolveImage(digest, reg)
SpecImage == InitImage /\ [][NextImage]_vars

\* the digest latest_digest found, the entry the call returned and the entry
\* stored under the key of the dependency
FoundDigest(r) == r.digest.ok /\ IsSome(Unwrap(r.digest.val))
DigestOf(r) == Unwrap(Unwrap(r.digest.val))
EntryOf(r) == Unwrap(r.result.val)

BlobOf(reg) == Unwrap(reg.blob.val)
\* a step of the enrichment fails at the registry reg: authentication, the
\* manifest fetch, an unsupported manifest kind, an empty manifest list, the
\* platform manifest (authentication, fetch, kind), the blob (authentication,
\* fetch) or the parsing of the blob
EnrichmentFails(reg) ==
    \/ ~reg.clients.manifest
    \/ ~reg.manifest.ok
    \/ /\ reg.manifest.ok
       /\ Unwrap(reg.manifest.val).kind \notin {"S2", "ML"}
    \/ /\ reg.manifest.ok
       /\ Unwrap(reg.manifest.val).kind = "ML"
       /\ \/ Unwrap(reg.manifest.val).manifests = << >>
          \/ ~reg.clients.platform
          \/ ~reg.platform_manifest.ok
          \/ reg.platform_manifest.ok /\ Unwrap(reg.platform_manifest.val).kind # "S2"
    \/ ~reg.clients.blob
    \/ ~reg.blob.ok
    \/ /\ reg.blob.ok
       /\ \/ BlobOf(reg).t # "Object"
          \/ "created" \in DOMAIN BlobOf(reg).o /\ BlobOf(reg).o.created.t # "String"

LabelsOf(blob) ==
    IF "config" \in DOMAIN blob.o /\ "Labels" \in DOMAIN blob.o.config.o
    THEN blob.o.config.o.Labels.o
    ELSE << >>
\* the text of ts before its first 'T' (all of it when it holds none)
DatePortion(ts) ==
    SubSeq(ts, 1, CHOOSE n \in 0..Len(ts) :
                      /\ n = Len(ts) \/ ts[n + 1] = "T"
                      /\ \A j \in 1..n : ts[j] # "T")
\* the resolved_version the priority gives for a config blob and a digest
Preferred(blob, digest) ==
    IF "org.opencontainers.image.version" \in DOMAIN LabelsOf(blob)
    THEN LabelsOf(blob)["org.opencontainers.image.version"].s
    ELSE IF "version" \in DOMAIN LabelsOf(blob) THEN LabelsOf(blob)["version"].s
    ELSE IF "created" \in DOMAIN blob.o THEN DatePortion(blob.o.created.s)
    ELSE digest

MaxText == 5
\* the texts of at most MaxText characters over a letter, '.', '/' and ':'
ReferenceTexts == UNION {[1..n -> {"a", ".", "/", ":"}] : n \in 1..MaxText}
\* full updates of projects declaring one image by such a text, without a
\* lock file
InitParse ==
    /\ project \in {<< CallSite(<<"u", "p", "t", "i", "x", ".", "d", "o", "c", "k", "e", "r", "I", "m", "a", "g", "e">>, StringNode(text)) >> : text \in ReferenceTexts}
    /\ lock_path = NoFile
    /\ command = NoCommand
    /\ all_dependencies = << >>
    /\ pc = "idle"
    /\ dependencies_to_update = << >>
    /\ lock_file = LockFile_new
    /\ exit_code = None
    /\ output = << >>
    /\ resolved = << >>
    /\ start_file = lock_path
    /\ writes = 0
NextParse == UpdateBegin(None)
SpecParse == InitParse /\ [][NextParse]_vars

\* the reference names a registry: the segment before its first '/' holds a dot
NamesRegistry(text) == Contains(text, "/") /\ Contains(Before(text, "/"), ".")
\* the reference without its registry segment
PathAndTag(text) == IF NamesRegistry(text) THEN After(text, "/") ELSE text
\* the reference carries a ":tag" suffix
HasTagSuffix(text) == Contains(PathAndTag(text), ":") /\ Len(After(PathAndTag(text), ":")) > 0

\* C21: for a reference the grammar accepts, the first '/'-separated segment
\* is the registry exactly when it holds a dot, otherwise the registry is
\* registry-1.docker.io and the segment stays in the repository path; the tag
\* is the text of the ":tag" suffix, and latest when there is no such suffix.
C21_ReferenceFields ==
    \A d \in Declared("Docker") :
        /\ d.registry = (IF NamesRegistry(d.name) THEN Before(d.name, "/")
                         ELSE <<"r", "e", "g", "i", "s", "t", "r", "y", "-", "1", ".", "d", "o", "c", "k", "e", "r", ".", "i", "o">>)
        /\ IF HasTagSuffix(d.name)
           THEN /\ d.tag = After(PathAndTag(d.name), ":")
                /\ d.image = Before(PathAndTag(d.name), ":")
           ELSE /\ d.tag = <<"l", "a", "t", "e", "s", "t">>
                /\ d.image = TrimEnd(PathAndTag(d.name), ":")


\* ------------------------------------------------- entries and their kinds
\* the dep_type tag of a variant
TypeTag(variant) ==
    CASE variant = "Docker" -> <<"d", "o", "c", "k", "e", "r">>
      [] variant = "GitHubBranch" -> <<"g", "i", "t", "h", "u", "b", "-", "b", "r", "a", "n", "c", "h">>
      [] variant = "GitHubRelease" -> <<"g", "i", "t", "h", "u", "b", "-", "r", "e", "l", "e", "a", "s", "e">>
\* dep_type values that are none of the three tags
OtherTypes == {<<>>, <<"D", "o", "c", "k", "e", "r">>, <<"g", "i", "t", "h", "u", "b">>, <<"d", "o", "c", "k", "e", "r", "-", "i", "m", "a", "g", "e">>, <<"g", "i", "t", "h", "u", "b", "-", "t", "a", "g">>}
\* the resolutions that returned an entry, and the entry stored for one
Produced == {i \in 1..Len(resolved) : resolved[i].ok}
StoredFor(i) == lock_file[Dependency_key(resolved[i].dependency)]
\* reconstruction returns a dependency of the variant
RebuildsAs(r, variant) == ~r.panic /\ r.ok /\ Unwrap(r.dep).variant = variant
\* reconstruction returns an error value and no dependency
RebuildFails(r) == ~r.panic /\ ~r.ok /\ IsNone(r.dep)

ShapeFiles ==
    {NoFile, File(OtherText("garbage")),
     File(to_string_pretty(OldStore({DependencyAt(SitePostgres15)})))}
InitShape ==
    /\ project \in Projects
    /\ lock_path \in ShapeFiles
    /\ command = NoCommand
    /\ all_dependencies = << >>
    /\ pc = "idle"
    /\ dependencies_to_update = << >>
    /\ lock_file = LockFile_new
    /\ exit_code = None
    /\ output = << >>
    /\ resolved = << >>
    /\ start_file = lock_path
    /\ writes = 0
NextShape ==
    \/ \E dependency \in {None, Some(<<"p">>)} : UpdateBegin(dependency)
    \/ \E w \in Worlds : UpdateResolve(w)
SpecShape == InitShape /\ [][NextShape]_vars

\* a recognized declaration function applied to a node of another kind than
\* the one it takes (a string for dockerImage, an attribute set otherwise)
WrongShape(site) ==
    /\ site.func \in {<<"u", "p", "t", "i", "x", ".", "d", "o", "c", "k", "e", "r", "I", "m", "a", "g", "e">>, <<"u", "p", "t", "i", "x", ".", "g", "i", "t", "h", "u", "b", "B", "r", "a", "n", "c", "h">>, <<"u", "p", "t", "i", "x", ".", "g", "i", "t", "h", "u", "b", "R", "e", "l", "e", "a", "s", "e">>}
    /\ site.node.kind # (IF site.func = <<"u", "p", "t", "i", "x", ".", "d", "o", "c", "k", "e", "r", "I", "m", "a", "g", "e">> THEN "NODE_STRING"
                         ELSE "NODE_ATTR_SET")
\* the update command ran on a project holding such a call-site
UpdateOfWrongShape ==
    command.name = "update" /\ \E i \in DOMAIN project : WrongShape(project[i])
\* the constructor of a call-site panics
Panics(site) == Dependency_new(site.func, site.node).status = "panic"
\* the first call-site that cannot be constructed is one of the wrong shape
WrongShapeFirst ==
    \E i \in DOMAIN project :
        WrongShape(project[i]) /\ \A j \in 1..(i - 1) : ~Panics(project[j])
\* nothing was resolved and the lock file is as the run found it
NothingDone == resolved = << >> /\ lock_path = start_file /\ writes = 0

Tree(kind, text, attrs, children) ==
    [kind |-> kind, text |-> text, attrs |-> attrs, children |-> children]
RECURSIVE JoinTexts(_)
JoinTexts(nodes) ==
    IF Len(nodes) = 0 THEN << >> ELSE nodes[1].text \o <<" ">> \o JoinTexts(Tail(nodes))
Ident(name) == Tree("NODE_IDENT", name, << >>, << >>)
StringTree(text) == Tree("NODE_STRING", <<"\"">> \o text \o <<"\"">>, << >>, << >>)
LiteralTree(text) == Tree("NODE_LITERAL", text, << >>, << >>)
\* set.name
SelectTree(set, name) ==
    Tree("NODE_SELECT", set.text \o <<".">> \o name, << >>, << set, Ident(name) >>)
\* (inner)
ParenTree(inner) == Tree("NODE_PAREN", <<"(">> \o inner.text \o <<")">>, << >>, << inner >>)
\* f arg
ApplyTree(f, arg) == Tree("NODE_APPLY", f.text \o <<" ">> \o arg.text, << >>, << f, arg >>)
\* key = value;
KeyValueTree(key, value) ==
    Tree("NODE_KEY_VALUE", key \o <<" ", "=", " ">> \o value.text \o <<";">>, << >>,
         << Ident(key), value >>)
\* { members }
AttrSetTree(attrs, members) ==
    Tree("NODE_ATTR_SET", <<"{", " ">> \o JoinTexts(members) \o <<"}">>, attrs, members)
RootTree(node) == Tree("NODE_ROOT", node.text, << >>, << node >>)

\* str::starts_with
starts_with(s, prefix) == Len(s) >= Len(prefix) /\ SubSeq(s, 1, Len(prefix)) = prefix
\* SyntaxNode::next_sibling of the i-th child
next_sibling(children, i) == IF i < Len(children) THEN Some(children[i + 1]) ELSE None

\* collect_ast_dependencies on a NODE_SELECT whose text is func: the outcome of
\* the constructor, nothing for another namespace or without a sibling
collect_select(func, value_node) ==
    IF ~starts_with(func, <<"u", "p", "t", "i", "x", ".">>) THEN Skipped
    ELSE IF IsNone(value_node) THEN Skipped
    ELSE Dependency_new(func, Unwrap(value_node))
\* Ok(vec![dependency]), Ok(vec![]) or the error of the constructor
collect_result(d) ==
    IF d.status = "ok" THEN [status |-> "ok", deps |-> d.dep]
    ELSE [status |-> d.status, deps |-> << >>]
\* acc.extend_from_slice(&next?) of try_fold: the first failure ends the fold
collect_fold(next, rest) ==
    IF next.status # "ok" THEN next
    ELSE IF rest.status # "ok" THEN rest
    ELSE [status |-> "ok", deps |-> next.deps \o rest.deps]
RECURSIVE collect_ast_dependencies(_, _)
RECURSIVE collect_children(_, _)
\* the fold over the children from the i-th on
collect_children(children, i) ==
    IF i > Len(children) THEN [status |-> "ok", deps |-> << >>]
    ELSE collect_fold(collect_ast_dependencies(children[i], next_sibling(children, i)),
                      collect_children(children, i + 1))
\* collect_ast_dependencies; value_node is node.next_sibling()
collect_ast_dependencies(node, value_node) ==
    IF node.kind # "NODE_SELECT" THEN collect_children(node.children, 1)
    ELSE collect_result(collect_select(node.text, value_node))

\* the values of the members of the files
ImageCall(text) == ApplyTree(SelectTree(Ident(<<"u", "p", "t", "i", "x">>), <<"d", "o", "c", "k", "e", "r", "I", "m", "a", "g", "e">>), StringTree(text))
ReleaseCall ==
    ApplyTree(SelectTree(Ident(<<"u", "p", "t", "i", "x">>), <<"g", "i", "t", "h", "u", "b", "R", "e", "l", "e", "a", "s", "e">>),
              AttrSetTree([owner |-> <<"o">>, repo |-> <<"r">>],
                          << KeyValueTree(<<"o", "w", "n", "e", "r">>, StringTree(<<"o">>)),
                             KeyValueTree(<<"r", "e", "p", "o">>, StringTree(<<"r">>)) >>))
BranchCall ==
    ApplyTree(SelectTree(Ident(<<"u", "p", "t", "i", "x">>), <<"g", "i", "t", "h", "u", "b", "B", "r", "a", "n", "c", "h">>),
              AttrSetTree([owner |-> <<"o">>, repo |-> <<"r">>, branch |-> <<"m">>],
                          << KeyValueTree(<<"o", "w", "n", "e", "r">>, StringTree(<<"o">>)),
                             KeyValueTree(<<"r", "e", "p", "o">>, StringTree(<<"r">>)),
                             KeyValueTree(<<"b", "r", "a", "n", "c", "h">>, StringTree(<<"m">>)) >>))
MemberValues ==
    { ImageCall(<<"p", "g", ":", "1">>),
      BranchCall,
      \* fetchFromGitHub (uptix.githubRelease { .. })
      ApplyTree(Ident(<<"f", "e", "t", "c", "h", "F", "r", "o", "m", "G", "i", "t", "H", "u", "b">>), ParenTree(ReleaseCall)),
      \* uptix.version release
      ApplyTree(SelectTree(Ident(<<"u", "p", "t", "i", "x">>), <<"v", "e", "r", "s", "i", "o", "n">>), Ident(<<"r", "e", "l", "e", "a", "s", "e">>)),
      \* uptix.nixosModules.uptix ./uptix.lock
      ApplyTree(SelectTree(SelectTree(Ident(<<"u", "p", "t", "i", "x">>), <<"n", "i", "x", "o", "s", "M", "o", "d", "u", "l", "e", "s">>), <<"u", "p", "t", "i", "x">>),
                LiteralTree(<<".", "/", "u", "p", "t", "i", "x", ".", "l", "o", "c", "k">>)),
      \* uptix.dockerImage
      SelectTree(Ident(<<"u", "p", "t", "i", "x">>), <<"d", "o", "c", "k", "e", "r", "I", "m", "a", "g", "e">>),
      \* lib.f (uptix.dockerImage "pg")
      ApplyTree(SelectTree(Ident(<<"l", "i", "b">>), <<"f">>), ParenTree(ImageCall(<<"p", "g">>))),
      \* uptix.version (uptix.dockerImage "pg")
      ApplyTree(SelectTree(Ident(<<"u", "p", "t", "i", "x">>), <<"v", "e", "r", "s", "i", "o", "n">>), ParenTree(ImageCall(<<"p", "g">>))),
      \* (uptix.githubRelease { .. }).rev
      SelectTree(ParenTree(ReleaseCall), <<"r", "e", "v">>),
      \* { b = uptix.dockerImage "pg:1"; }
      AttrSetTree(<< >>, << KeyValueTree(<<"b">>, ImageCall(<<"p", "g", ":", "1">>)) >>),
      \* uptix.dockerImage 42
      ApplyTree(SelectTree(Ident(<<"u", "p", "t", "i", "x">>), <<"d", "o", "c", "k", "e", "r", "I", "m", "a", "g", "e">>), LiteralTree(<<"4", "2">>)),
      Ident(<<"x">>) }
\* the files: an attribute set of at most MaxDecls members
SyntaxTrees ==
    {RootTree(AttrSetTree(<< >>, [i \in DOMAIN values |-> KeyValueTree(<<"a">>, values[i])])) :
        values \in UNION {[1..n -> MemberValues] : n \in 0..MaxDecls}}

\* the parsing loop of the update command on one file: collect_file_dependencies
Collected(r) ==
    /\ all_dependencies' = r.deps
    /\ IF r.status = "ok"
       THEN /\ pc' = "parsed"
            /\ output' = Append(output, "Parsing files... Done.")
            /\ UNCHANGED exit_code
       ELSE Exit(IF r.status = "panic" THEN 101 ELSE 1, r.status)
CollectFile ==
    /\ pc = "idle"
    /\ command' = Command("update", None)
    /\ Collected(collect_ast_dependencies(project, None))
    /\ UNCHANGED <<project, lock_path, dependencies_to_update, lock_file, resolved,
                   start_file, writes>>
InitTree ==
    /\ project \in SyntaxTrees
    /\ lock_path = NoFile
    /\ command = NoCommand
    /\ all_dependencies = << >>
    /\ pc = "idle"
    /\ dependencies_to_update = << >>
    /\ lock_file = LockFile_new
    /\ exit_code = None
    /\ output = << >>
    /\ resolved = << >>
    /\ start_file = lock_path
    /\ writes = 0
NextTree == CollectFile
SpecTree == InitTree /\ [][NextTree]_vars

\* the declaration functions
KnownFunctions == {<<"u", "p", "t", "i", "x", ".", "d", "o", "c", "k", "e", "r", "I", "m", "a", "g", "e">>, <<"u", "p", "t", "i", "x", ".", "g", "i", "t", "h", "u", "b", "B", "r", "a", "n", "c", "h">>, <<"u", "p", "t", "i", "x", ".", "g", "i", "t", "h", "u", "b", "R", "e", "l", "e", "a", "s", "e">>}
\* a node that calls a declaration function: a member selection naming one,
\* followed by its argument
IsCallSite(node, sibling) ==
    node.kind = "NODE_SELECT" /\ node.text \in KnownFunctions /\ IsSome(sibling)
\* the dependency of a call-site with a well-formed argument (none otherwise)
Declaration(d) == IF d.status = "ok" THEN d.dep ELSE << >>
RECURSIVE Declarations(_, _)
RECURSIVE DeclarationsIn(_, _)
\* the dependencies of all call-sites at or below a node, in depth-first
\* source order
Declarations(node, sibling) ==
    (IF IsCallSite(node, sibling)
     THEN Declaration(Dependency_new(node.text, Unwrap(sibling))) ELSE << >>)
    \o DeclarationsIn(node.children, 1)
DeclarationsIn(children, i) ==
    IF i > Len(children) THEN << >>
    ELSE Declarations(children[i], next_sibling(children, i)) \o DeclarationsIn(children, i + 1)

\* C24: extraction is complete and ordered: every call-site of a known
\* declaration function with a well-formed argument, wherever it is nested
\* (in the argument of another call, beside a skipped member, below a member
\* selection), yields exactly one dependency, and the list is in depth-first
\* source order.
C24_ExtractionComplete ==
    pc = "parsed" => all_dependencies = Declarations(project, None)


RECURSIVE HasCallSite(_, _)
\* a call-site of a declaration function lies at or below the node
HasCallSite(node, sibling) ==
    \/ IsCallSite(node, sibling)
    \/ \E i \in DOMAIN node.children :
          HasCallSite(node.children[i], next_sibling(node.children, i))

\* C25: extraction returns the empty list, and no error, for every tree
\* without a call-site of a declaration function; a member of the reserved
\* namespace that is no declaration function (uptix.version,
\* uptix.nixosModules.uptix) or has no following sibling contributes no
\* dependency.
C25_OtherMembersContributeNothing ==
    /\ (pc # "idle" /\ ~HasCallSite(project, None))
           => (pc = "parsed" /\ all_dependencies = << >>)
    /\ pc = "parsed" => Range(all_dependencies) \subseteq Range(Declarations(project, None))
C25_Witness ==
    /\ pc = "parsed"
    /\ ~HasCallSite(project, None)
    /\ ContainsStr(project.text, <<"u", "p", "t", "i", "x", ".", "n", "i", "x", "o", "s", "M", "o", "d", "u", "l", "e", "s", ".", "u", "p", "t", "i", "x", " ", ".", "/", "u", "p", "t", "i", "x", ".", "l", "o", "c", "k">>)
    /\ ContainsStr(project.text, <<"a", " ", "=", " ", "u", "p", "t", "i", "x", ".", "d", "o", "c", "k", "e", "r", "I", "m", "a", "g", "e", ";">>)


\* ------------------------------------------------------------------- init
\* the lock file holds the empty store {}
HoldsEmptyStore(file) ==
    file.exists /\ file.content.kind = "object" /\ DOMAIN file.content.members = {}
\* init found a lock file: it is left as it was, reported, and init succeeds
InitKeeps ==
    /\ lock_path = start_file
    /\ writes = 0
    /\ LastOutput = "uptix.lock already exists"
    /\ exit_code = Some(0)

GitHubBranch_locked(d, api, sha256) ==
    IF ~api.ok THEN Err(api.err)
    ELSE IF ~sha256.ok THEN Err(sha256.err)
    ELSE Ok(GitHubLock(d, Unwrap(api.val), Unwrap(sha256.val)))
\* GitHubBranch::lock: the payload of a branch
GitHubBranch_lock(d, api, prefetch) == GitHubBranch_locked(d, api, GitHub_sha256(d, prefetch))
\* the payload of the entry lock_with_metadata returned
entry_lock(r) == IF r.ok THEN Ok(Unwrap(r.val).lock) ELSE Err(r.err)
\* the external calls of a source-control resolution, in order: the GitHub
\* API, then nix-prefetch-git unless the API failed (`?`) or the declaration
\* carries override_nix_sha256
GitHub_invocations(d, api) ==
    << "api.github.com" >>
    \o (IF api.ok /\ IsNone(d.override_nix_sha256) THEN << "nix-prefetch-git" >> ELSE << >>)

SourceSites ==
    {CallSite(<<"u", "p", "t", "i", "x", ".", "g", "i", "t", "h", "u", "b", "R", "e", "l", "e", "a", "s", "e">>, AttrSetNode([owner |-> <<"o">>, repo |-> <<"r">>])),
     CallSite(<<"u", "p", "t", "i", "x", ".", "g", "i", "t", "h", "u", "b", "R", "e", "l", "e", "a", "s", "e">>,
              AttrSetNode([owner |-> <<"o">>, repo |-> <<"r">>, override_nix_sha256 |-> <<"x">>])),
     CallSite(<<"u", "p", "t", "i", "x", ".", "g", "i", "t", "h", "u", "b", "R", "e", "l", "e", "a", "s", "e">>,
              AttrSetNode([owner |-> <<"o">>, repo |-> <<"q">>, fetchSubmodules |-> TRUE,
                           override_nix_sha256 |-> <<"x">>])),
     CallSite(<<"u", "p", "t", "i", "x", ".", "g", "i", "t", "h", "u", "b", "B", "r", "a", "n", "c", "h">>,
              AttrSetNode([owner |-> <<"o">>, repo |-> <<"r">>, branch |-> <<"m">>])),
     CallSite(<<"u", "p", "t", "i", "x", ".", "g", "i", "t", "h", "u", "b", "B", "r", "a", "n", "c", "h">>,
              AttrSetNode([owner |-> <<"o">>, repo |-> <<"r">>, branch |-> <<"d">>, leaveDotGit |-> FALSE,
                           override_nix_sha256 |-> <<"x">>]))}
\* the answers a source-control resolution meets
SourceWorld(api, prefetch) ==
    [digest |-> NotAsked, meta |-> NoMetadata, api |-> api, prefetch |-> prefetch]
\* the record of a source-control resolution: the answers, the calls made and
\* the payload returned
SourceAsked(d, api, prefetch) ==
    [dependency |-> d,
     ok |-> Dependency_lock_with_metadata(d, SourceWorld(api, prefetch)).ok,
     api |-> api, prefetch |-> prefetch,
     invocations |-> GitHub_invocations(d, api),
     payload |-> IF d.variant = "GitHubBranch" THEN GitHubBranch_lock(d, api, prefetch)
                 ELSE entry_lock(GitHubRelease_lock_with_metadata(d, api, prefetch))]
\* one iteration of the loop on a source-control declaration
UpdateResolveSource(api, prefetch) ==
    /\ pc = "resolve"
    /\ Len(dependencies_to_update) > 0
    /\ Head(dependencies_to_update).variant # "Docker"
    /\ resolved' = Append(resolved, SourceAsked(Head(dependencies_to_update), api, prefetch))
    /\ UpdateResolved(update_resolve(lock_file, Head(dependencies_to_update),
                                     SourceWorld(api, prefetch)))
    /\ UNCHANGED <<project, lock_path, command, all_dependencies, start_file, writes>>
InitSource ==
    /\ project \in UNION {[1..n -> SourceSites] : n \in 1..MaxDecls}
    /\ lock_path = NoFile
    /\ command = NoCommand
    /\ all_dependencies = << >>
    /\ pc = "idle"
    /\ dependencies_to_update = << >>
    /\ lock_file = LockFile_new
    /\ exit_code = None
    /\ output = << >>
    /\ resolved = << >>
    /\ start_file = lock_path
    /\ writes = 0
NextSource ==
    \/ UpdateBegin(None)
    \/ \E api \in ApiAnswers(1..MaxRev), prefetch \in PrefetchAnswers(1..MaxRev) :
          UpdateResolveSource(api, prefetch)
SpecSource == InitSource /\ [][NextSource]_vars

\* the resolutions of declarations carrying a hash override
Overridden == {i \in 1..Len(resolved) : IsSome(resolved[i].dependency.override_nix_sha256)}
\* {owner, repo, rev, hash, flags} of a declaration, an unset flag being false
PayloadOf(d, rev, hash) ==
    [t |-> "Object",
     s |-> << >>,
     o |-> [owner |-> d.owner, repo |-> d.repo, rev |-> rev, sha256 |-> hash,
            fetchSubmodules |-> (d.fetchSubmodules = Some(TRUE)),
            deepClone |-> (d.deepClone = Some(TRUE)),
            leaveDotGit |-> (d.leaveDotGit = Some(TRUE))]]

\* C27: when a branch or release declaration carries a hash override, its
\* resolution never invokes nix-prefetch-git, succeeds whenever the API
\* answers, and its payload is {owner, repo, rev, hash, flags} with rev the
\* commit SHA or tag the API returned and hash the override.
C27_OverrideSkipsHashing ==
    \A i \in Overridden :
        /\ "nix-prefetch-git" \notin Range(resolved[i].invocations)
        /\ resolved[i].payload.ok = resolved[i].api.ok
        /\ resolved[i].payload.ok =>
              Unwrap(resolved[i].payload.val) =
                  PayloadOf(resolved[i].dependency, Unwrap(resolved[i].api.val),
                            Unwrap(resolved[i].dependency.override_nix_sha256))
        /\ (i = Len(resolved) /\ resolved[i].ok) =>
              lock_file[Dependency_key(resolved[i].dependency)].lock
                  = Unwrap(resolved[i].payload.val)
\* an overridden branch resolved although nix-prefetch-git would have failed
C27_Witness ==
    \E i \in Overridden :
        /\ resolved[i].dependency.variant = "GitHubBranch"
        /\ resolved[i].payload.ok
        /\ ~resolved[i].prefetch.ok


\* ------------------------------------------- container image: the lookups
\* the repository name sent to the registry: official images of Docker Hub
\* get the library/ prefix
image_name(d) ==
    IF d.registry = DEFAULT_REGISTRY /\ ~Contains(d.image, "/") THEN <<"l", "i", "b", "r", "a", "r", "y", "/">> \o d.image
    ELSE d.image
\* a client configured with the credentials whatever the registry
client_config_any_registry(d, credentials) ==
    [registry |-> d.registry, credentials |-> credentials]
\* Client::configure().registry(..): username and password are set only for
\* Docker Hub, when get_credentials found some
client_config(d, credentials) ==
    [registry |-> d.registry,
     credentials |-> IF d.registry = DEFAULT_REGISTRY THEN credentials ELSE None]
\* a request a client sends: its kind, and the registry and credentials the
\* client is configured with
Request(kind, config, name) ==
    [kind |-> kind, registry |-> config.registry, credentials |-> config.credentials,
     name |-> name]

\* the first try of latest_digest: config.build()?, then get_manifestref
direct_attempt(config, name, net) ==
    IF ~net.build THEN [result |-> Err("BuildError"), requests |-> << >>]
    ELSE [result |-> net.direct, requests |-> << Request("manifest", config, name) >>]
\* the second try: config.build()?.authenticate(scopes).await?, then
\* get_manifestref with the token
authenticated_attempt(config, name, net) ==
    IF ~net.build THEN [result |-> Err("BuildError"), requests |-> << >>]
    ELSE IF ~net.token.ok
    THEN [result |-> Err(net.token.err), requests |-> << Request("token", config, name) >>]
    ELSE [result |-> net.manifest,
          requests |-> << Request("token", config, name),
                          Request("manifest-with-token", config, name) >>]
\* a lookup that makes the second try whatever the first gave
latest_digest_from_both(direct, authenticated) ==
    [result |-> IF direct.result.ok THEN direct.result ELSE authenticated.result,
     requests |-> direct.requests \o authenticated.requests]
\* latest_digest after the first try: its result when it is Ok, otherwise
\* the result of the second try
latest_digest_from(direct, authenticated) ==
    IF direct.result.ok THEN direct
    ELSE [result |-> authenticated.result,
          requests |-> direct.requests \o authenticated.requests]
latest_digest_with(config, name, net) ==
    latest_digest_from(direct_attempt(config, name, net),
                       authenticated_attempt(config, name, net))
\* Docker::latest_digest: the result and the requests sent.  net holds what
\* the registry answers to each request.
latest_digest(d, credentials, net) ==
    latest_digest_with(client_config(d, credentials), image_name(d), net)

\* the requests of fetch_image_metadata: each build_authenticated_client
\* asks for a token; a client that was built sends its request
blob_requests(config, name, reg) ==
    << Request("token", config, name) >>
    \o (IF reg.clients.blob THEN << Request("blob", config, name) >> ELSE << >>)
platform_requests(config, name, reg) ==
    << Request("token", config, name) >>
    \o (IF reg.clients.platform THEN << Request("platform-manifest", config, name) >>
        ELSE << >>)
manifest_requests(config, name, reg) ==
    << Request("token", config, name) >>
    \o (IF ~reg.clients.manifest THEN << >>
        ELSE << Request("manifest-with-token", config, name) >>
             \o (IF reg.manifest.ok /\ Unwrap(reg.manifest.val).kind = "ML"
                    /\ Len(Unwrap(reg.manifest.val).manifests) > 0
                 THEN platform_requests(config, name, reg) ELSE << >>))
enrichment_requests(config, name, reg) ==
    manifest_requests(config, name, reg)
    \o (IF config_digest(reg) THEN blob_requests(config, name, reg) ELSE << >>)
\* the requests lock_with_metadata sends after latest_digest: those of
\* fetch_image_metadata, made only when a digest was found
fetch_image_metadata_requests(d, credentials, reg, digest) ==
    IF digest.ok /\ IsSome(Unwrap(digest.val))
    THEN enrichment_requests(client_config(d, credentials), image_name(d), reg)
    ELSE << >>

\* get_credentials: none, or those of the environment or the docker config
CredentialOptions == {None, Some(<< <<"u">>, <<"t">> >>)}
LookupSites ==
    {CallSite(<<"u", "p", "t", "i", "x", ".", "d", "o", "c", "k", "e", "r", "I", "m", "a", "g", "e">>, StringNode(<<"p", "g", ":", "1">>)),
     CallSite(<<"u", "p", "t", "i", "x", ".", "d", "o", "c", "k", "e", "r", "I", "m", "a", "g", "e">>, StringNode(<<"n", "/", "p", "g", ":", "1">>)),
     CallSite(<<"u", "p", "t", "i", "x", ".", "d", "o", "c", "k", "e", "r", "I", "m", "a", "g", "e">>, StringNode(<<"h", ".", "i", "/", "p", "g", ":", "1">>))}
\* what the registry answers to the requests of latest_digest
LookupAnswers ==
    [build : BOOLEAN,
     direct : {Err("DirectError"), Ok(None), Ok(Some(DigestAt(1)))},
     token : {Err("TokenError"), Ok(<<"t", "o", "k", "e", "n">>)},
     manifest : {Err("ManifestError"), Ok(None), Ok(Some(DigestAt(1)))}]
\* and to those of fetch_image_metadata
EnrichmentAnswers ==
    {reg \in RegistryAnswers :
        /\ reg.clients.platform = reg.clients.blob
        /\ reg.manifest \in {Err("RegistryError"), Ok([kind |-> "S2", manifests |-> << >>]),
                             Ok([kind |-> "ML", manifests |-> << DigestAt(0) >>])}
        /\ reg.platform_manifest = Ok([kind |-> "S2"])
        /\ reg.blob = Err("RegistryError")}
\* the record of a call of lock_with_metadata of an image: the credentials
\* found, the answers, the requests sent and what the call returned
Looked(d, credentials, net, reg, lookup) ==
    [dependency |-> d, credentials |-> credentials, net |-> net, registry |-> reg,
     lookup |-> lookup,
     enrichment |-> fetch_image_metadata_requests(d, credentials, reg, lookup.result),
     result |-> Dependency_lock_with_metadata(d, ImageWorld(lookup.result, reg)),
     ok |-> lookup.result.ok /\ IsSome(Unwrap(lookup.result.val))]
UpdateLooked(d, credentials, net, reg, lookup) ==
    /\ resolved' = Append(resolved, Looked(d, credentials, net, reg, lookup))
    /\ UpdateResolved(update_resolve(lock_file, d, ImageWorld(lookup.result, reg)))
\* one iteration of the loop on an image, request by request
UpdateResolveLookup(credentials, net, reg) ==
    /\ pc = "resolve"
    /\ Len(dependencies_to_update) > 0
    /\ Head(dependencies_to_update).variant = "Docker"
    /\ UpdateLooked(Head(dependencies_to_update), credentials, net, reg,
                    latest_digest(Head(dependencies_to_update), credentials, net))
    /\ UNCHANGED <<project, lock_path, command, all_dependencies, start_file, writes>>
InitLookup ==
    /\ project \in [1..1 -> LookupSites]
    /\ lock_path = NoFile
    /\ command = NoCommand
    /\ all_dependencies = << >>
    /\ pc = "idle"
    /\ dependencies_to_update = << >>
    /\ lock_file = LockFile_new
    /\ exit_code = None
    /\ output = << >>
    /\ resolved = << >>
    /\ start_file = lock_path
    /\ writes = 0
NextLookup ==
    \/ UpdateBegin(None)
    \/ \E credentials \in CredentialOptions, net \in LookupAnswers, reg \in EnrichmentAnswers :
          UpdateResolveLookup(credentials, net, reg)
SpecLookup == InitLookup /\ [][NextLookup]_vars

\* the direct attempt of a recorded lookup succeeded
DirectSucceeded(r) == r.net.build /\ r.net.direct.ok
\* the authenticated attempt failed, and its error
AuthenticatedFailed(r) == ~r.net.build \/ ~r.net.token.ok \/ ~r.net.manifest.ok
AuthenticatedError(r) ==
    IF ~r.net.build THEN "BuildError"
    ELSE IF ~r.net.token.ok THEN r.net.token.err ELSE r.net.manifest.err
\* the requests of the authenticated attempt among those of a lookup
OfAuthenticated(requests) ==
    {j \in DOMAIN requests : requests[j].kind \in {"token", "manifest-with-token"}}

\* C28: in latest_digest the authenticated attempt (token request, manifest
\* lookup) is made only after the direct attempt has failed; when the direct
\* attempt succeeds its result is returned and no token request is sent; when
\* both fail the lookup fails with the error of the authenticated attempt.
C28_AuthenticatedOnlyAfterDirectFailed ==
    \A i \in DOMAIN resolved :
        /\ \A j \in OfAuthenticated(resolved[i].lookup.requests) :
              /\ ~DirectSucceeded(resolved[i])
              /\ j > 1
              /\ resolved[i].lookup.requests[1].kind = "manifest"
        /\ DirectSucceeded(resolved[i]) =>
              /\ resolved[i].lookup.result = resolved[i].net.direct
              /\ OfAuthenticated(resolved[i].lookup.requests) = {}
        /\ (~DirectSucceeded(resolved[i]) /\ AuthenticatedFailed(resolved[i])) =>
              /\ resolved[i].lookup.result = Err(AuthenticatedError(resolved[i]))
              /\ resolved[i].result = Err(AuthenticatedError(resolved[i]))
\* both attempts were made and failed, each with its own error
C28_Witness ==
    \E i \in DOMAIN resolved :
        /\ resolved[i].net.build
        /\ ~resolved[i].net.direct.ok
        /\ resolved[i].net.token.ok
        /\ ~resolved[i].net.manifest.ok
        /\ Len(resolved[i].lookup.requests) = 3

\* every request of a recorded resolution
Sent(r) == Range(r.lookup.requests) \cup Range(r.enrichment)
\* C29: credentials are attached only to requests whose registry is
\* registry-1.docker.io: for an image of another registry every request sent
\* (digest lookup, token request, enrichment) is the same whether or not
\* credentials are available.
C29_CredentialsOnlyForDockerHub ==
    \A i \in DOMAIN resolved :
        /\ \A request \in Sent(resolved[i]) :
              IsSome(request.credentials) => request.registry = <<"r", "e", "g", "i", "s", "t", "r", "y", "-", "1", ".", "d", "o", "c", "k", "e", "r", ".", "i", "o">>
        /\ resolved[i].dependency.registry # <<"r", "e", "g", "i", "s", "t", "r", "y", "-", "1", ".", "d", "o", "c", "k", "e", "r", ".", "i", "o">> =>
              \A credentials \in CredentialOptions :
                  /\ latest_digest(resolved[i].dependency, credentials, resolved[i].net)
                        = resolved[i].lookup
                  /\ fetch_image_metadata_requests(resolved[i].dependency, credentials,
                                                   resolved[i].registry,
                                                   resolved[i].lookup.result)
                        = resolved[i].enrichment
\* an image of another registry resolved with credentials in the environment,
\* through the token request and the enrichment
C29_Witness ==
    \E i \in DOMAIN resolved :
        /\ resolved[i].dependency.registry = <<"h", ".", "i">>
        /\ IsSome(resolved[i].credentials)
        /\ Len(resolved[i].lookup.requests) = 3
        /\ Len(resolved[i].enrichment) > 2


\* ------------------------------------------------- stored entries (list, show)
\* entries a lock file can hold: one an update wrote, and entries that parse
\* as {metadata, lock} but have an unknown dep_type, no selected_version, a
\* name and tag that form no legal image reference, or a payload of the
\* wrong shape
StoredEntries ==
    [k \in {<<"p", "g", ":", "1">>, <<"a">>, <<"b">>, <<"c">>, <<"d">>} |->
        CASE k = <<"p", "g", ":", "1">> ->
                LockEntry(DependencyMetadata(<<"p", "g">>, Some(<<"1">>), Some(DigestAt(1)), None,
                                             <<"d", "o", "c", "k", "e", "r">>, <<"D", "o", "c", "k", "e", "r", " ", "i", "m", "a", "g", "e">>),
                          JsonString(DigestAt(1)))
          [] k = <<"a">> ->
                LockEntry(DependencyMetadata(<<"p", "g">>, Some(<<"1">>), Some(DigestAt(1)), None,
                                             <<"o", "c", "i">>, <<"D", "o", "c", "k", "e", "r", " ", "i", "m", "a", "g", "e">>),
                          JsonString(DigestAt(1)))
          [] k = <<"b">> ->
                LockEntry(DependencyMetadata(<<"p", "g">>, None, Some(DigestAt(1)), None,
                                             <<"d", "o", "c", "k", "e", "r">>, <<"D", "o", "c", "k", "e", "r", " ", "i", "m", "a", "g", "e">>),
                          JsonString(DigestAt(1)))
          [] k = <<"c">> ->
                LockEntry(DependencyMetadata(<<"P", "G">>, Some(<<"1">>), Some(DigestAt(1)), None,
                                             <<"d", "o", "c", "k", "e", "r">>, <<"D", "o", "c", "k", "e", "r", " ", "i", "m", "a", "g", "e">>),
                          JsonString(DigestAt(1)))
          [] k = <<"d">> ->
                LockEntry(DependencyMetadata(<<"o", "/", "r">>, Some(<<"l", "a", "t", "e", "s", "t">>), Some(RevAt(1)), None,
                                             <<"g", "i", "t", "h", "u", "b", "-", "r", "e", "l", "e", "a", "s", "e">>, <<"G", "i", "t", "H", "u", "b", " ", "r", "e", "l", "e", "a", "s", "e">>),
                          JsonString(RevAt(1)))]
\* the lock files holding at most MaxDecls of these entries
StoredFiles ==
    {File(to_string_pretty([k \in keys |-> StoredEntries[k]])) :
        keys \in {s \in SUBSET DOMAIN StoredEntries : Cardinality(s) <= MaxDecls}}
InitStored ==
    /\ project = << >>
    /\ lock_path \in StoredFiles
    /\ command = NoCommand
    /\ all_dependencies = << >>
    /\ pc = "idle"
    /\ dependencies_to_update = << >>
    /\ lock_file = LockFile_new
    /\ exit_code = None
    /\ output = << >>
    /\ resolved = << >>
    /\ start_file = lock_path
    /\ writes = 0
NextStored ==
    \/ ListCommand
    \/ \E dependency \in DOMAIN StoredEntries \cup {<<"p", "g">>, <<"x">>} : ShowCommand(dependency)
SpecStored == InitStored /\ [][NextStored]_vars

\* C30: reconstruction from a stored entry never aborts the process: for
\* every lock entry that parses as {metadata, lock}, from_lock_entry, and so
\* list and show, returns a dependency or an error value, also when dep_type
\* is unknown, selected_version is missing, name and tag form no legal image
\* reference, or the payload has the wrong shape.
C30_ReconstructionNeverAborts ==
    (pc = "exited" /\ command.name \in {"list", "show"}) =>
        /\ exit_code \in {Some(0), Some(1)}
        /\ \A k \in DOMAIN Stored(start_file) :
              ~Dependency_from_lock_entry(Stored(start_file)[k]).panic

====
